---- MODULE Spec2Model ----
(***************************************************************************)
(* State-machine model of astrbot_plugin_engram: the ProfileGuardian       *)
(* (services/profile_guardian.py), hybrid retrieval and the archival run   *)
(* of MemoryManager (core/memory_manager.py).                              *)
(*                                                                         *)
(* Python strings that the code inspects character by character (regex     *)
(* search, substring tests) are sequences of one-character tokens.  A CJK  *)
(* character is written as its pinyin token; the legend follows.           *)
(***************************************************************************)
\* wo=U+6211, shi=U+662F, nan=U+7537, nv=U+5973, sheng=U+751F, hai=U+5B69, zi=U+5B50,
\* ren=U+4EBA, peng=U+670B, you=U+53CB, piao=U+7968, shen=U+795E, ge=U+4E2A,
\* de=U+7684, xing=U+6027, bie=U+522B, wei=U+4E3A, sui=U+5C81, le=U+4E86, jin=U+4ECA,
\* nian=U+5E74, chu=U+51FA, yu=U+4E8E, ri=U+65E5, yue=U+6708, zai=U+5728, ju=U+5C45,
\* zhu=U+4F4F, huo=U+6D3B, gong=U+5DE5, zuo=U+4F5C, shang=U+4E0A, xue=U+5B66,
\* du=U+8BFB, shu=U+4E66, jia=U+5BB6, shi_city=U+5E02, qu=U+533A, xian=U+53BF,
\* sheng_prov=U+7701, ben=U+672C, di=U+5730, lai=U+6765, zi_self=U+81EA,
\* cheng=U+7A0B, xu=U+5E8F, yuan=U+5458, she=U+8BBE, ji=U+8BA1, shi_master=U+5E08,
\* lao=U+8001, yi=U+533B, hu=U+62A4, shi_scholar=U+58EB, jing=U+8B66, cha=U+5BDF,
\* lv=U+5F8B, ban=U+73ED, dang=U+5F53, chai=U+5DEE, fu=U+670D, yi_serve=U+5F79,
\* zhi=U+804C, ye=U+4E1A, zuo_do=U+505A, hang=U+884C, si=U+53F8, ji_machine=U+673A,
\* xi=U+559C, huan=U+6B22, ai=U+7231, zui=U+6700, chao=U+8D85, tao=U+8BA8,
\* yan=U+538C, bu=U+4E0D, hen=U+6068, fan=U+53CD, gan=U+611F, wu=U+6076, wai=U+5916,
\* xiang=U+5411, po=U+6CFC, kai=U+5F00, lang=U+6717, nei=U+5185, an=U+5B89,
\* jing_quiet=U+9759, hai_harm=U+5BB3, xiu=U+7F9E, yan_strict=U+4E25,
\* jin_careful=U+8C28, ren_know=U+8BA4, zhen=U+771F, xi_fine=U+7EC6, xin=U+5FC3,
\* cu=U+7C97, sui_follow=U+968F, yi_mind=U+610F, ma=U+9A6C, hu_tiger=U+864E,
\* chi=U+5403, rou=U+8089, shi_food=U+98DF, su=U+7D20, mao=U+732B, yang=U+517B,
\* mao_hair=U+6BDB, guo=U+8FC7, min=U+654F, dui=U+5BF9, gou=U+72D7, hua=U+82B1,
\* hai_sea=U+6D77, xian_fresh=U+9C9C, mang=U+8292, guo_fruit=U+679C, xi_west=U+897F,
\* gua=U+74DC, bei=U+5317, jing_capital=U+4EAC, tiao=U+8DF3, san=U+4F1E, tian=U+5929,
\* qi=U+6C14, qing=U+6674, xie=U+5199, dai=U+4EE3, ma_code=U+7801, yong=U+7528,
\* ni=U+4F60, ta=U+4ED6, ta_she=U+5979, ta_it=U+5B83, zhe=U+8FD9, na=U+90A3,
\* a_ah=U+554A, ya=U+5440, ma_q=U+5417, ne=U+5462, ba=U+5427, he=U+548C,
\* yu_and=U+4E0E, ji_and=U+53CA, jiu=U+5C31, ye_also=U+4E5F
EXTENDS Integers, Sequences, FiniteSets, TLC

VARIABLES
  \* ---- ProfileGuardian / ProfileManager ----
  config,      \* ProfileGuardian._enable_* / _confidence_threshold
  profile,     \* the stored profile (current_profile of the next cycle)
  lastOld,     \* current_profile argument of the last validate_update
  lastNew,     \* new_profile argument of the last validate_update
  lastText,    \* memory_texts argument of the last validate_update
  conflicts,   \* conflicts returned by the last validate_update
  cycle,       \* number of completed update cycles (the clock of datetime.now)
  iterOrder,   \* iteration order of Python sets of strings in this process
  proposed,    \* per attribute key: cycles in which the LLM proposed it unconfirmed
  \* ---- MemoryManager.retrieve_memories ----
  rConfig,     \* self.config: the options retrieve_memories reads
  rQuery,      \* query argument
  rLimit,      \* limit argument
  rResults,    \* what collection.query returned: ids, documents and distances
  rData,       \* memory_data: the scored candidates before ranking
  rRanked,     \* memory_data after ranking and truncation
  rOutput,     \* all_memories, the returned list
  active_score,\* MemoryIndex.active_score of each summary
  bump_calls,  \* per summary: number of update_active_score calls of the last retrieval
  rRaised,     \* the summaries whose update_active_score call raised
  rPhase,      \* "idle", "called" (arguments bound) or "returned"
  \* ---- MemoryManager._summarize_private_chat ----
  raw_memory,  \* RawMemory rows: per day the message texts, oldest first
  old_days,    \* the days 1..old_days lie before the cutoff date (max_history_days)
  is_archived, \* RawMemory.is_archived of each message
  collection,  \* ids of the entries of the vector collection
  memory_index,\* MemoryIndex rows: index_id and ref_uuids
  run,         \* the locals and the position of the current archival run
  \* ---- MemoryManager._ensure_chroma_initialized ----
  cPc,         \* per caller: "idle", "waiting" (for the lock), "init", "returned", "raised"
  cCalls,      \* per caller: number of calls made
  _chroma_init_lock,   \* the caller that holds the asyncio.Lock, or Unlocked
  _chroma_initialized, \* the flag
  chroma_handles,      \* self.chroma_client and self.collection (the handle, not its content)
  init_started,        \* number of times _init_chroma was submitted
  init_succeeded,      \* number of times it returned
  init_failed,         \* number of times it raised
  \* ---- delete_memory_by_sequence / undo_last_delete ----
  mem_rows,        \* the MemoryIndex table
  vec_entries,     \* the entries of the collection: id, document, metadata, embedding
  raw_rows,        \* the RawMemory table: is_archived of each stored message
  _delete_history, \* self._delete_history: per user_id the delete records
  dOps,            \* number of delete and undo calls made
  dSerial,         \* number of delete records created (their serial numbers)
  dLog,            \* the recorded deletions not undone, newest first: serial, completed
  dDisplaced,      \* serials of the records cut off the end of the history
  dBefore,         \* the target's row, entry and archived messages before the last delete
  dPrev,           \* outcome of the call before the last one
  dLast,           \* outcome of the last call
  \* ---- scheduler jobs and shutdown ----
  scheduler_is_shutdown, \* MemoryScheduler._is_shutdown
  logic_is_shutdown,     \* _is_shutdown of the facade and of the memory manager
  executor_shutdown,     \* executor._shutdown
  jobs,                  \* each job's position and the users it has not reached
  units,                 \* the units of work started, and whether a flag was set then
  last_chat_time,        \* the user ids of logic.last_chat_time, in insertion order
  tasks,                 \* the calls of ProfileManager in flight for one user
  timed,                 \* the timed archival: the activity cache, the counters of
                         \* unsaved messages, the raw messages and the running pass
  \* ---- calls of the pure functions ----
  call_args,             \* the arguments of the call
  call_result            \* what the call returned

gvars == <<config, profile, lastOld, lastNew, lastText, conflicts, cycle, iterOrder, proposed>>

rvars == <<rConfig, rQuery, rLimit, rResults, rData, rRanked, rOutput, active_score,
           bump_calls, rRaised, rPhase>>

avars == <<raw_memory, old_days, is_archived, collection, memory_index, run>>

cvars == <<cPc, cCalls, _chroma_init_lock, _chroma_initialized, chroma_handles,
           init_started, init_succeeded, init_failed>>

dvars == <<mem_rows, vec_entries, raw_rows, _delete_history, dOps, dSerial, dLog,
           dDisplaced, dBefore, dPrev, dLast>>

svars == <<scheduler_is_shutdown, logic_is_shutdown, executor_shutdown, jobs, units,
           last_chat_time, timed, tasks>>

pvars == <<call_args, call_result>>

vars == <<gvars, rvars, avars, cvars, dvars, svars, pvars>>

\* Python None, and a dict key that is absent (dict.get returns None)
None == "None"

\* the sentinel of an unset basic_info field, U+672A U+77E5
Sentinel == "weizhi"

Max(a, b) == IF a >= b THEN a ELSE b
Min(a, b) == IF a <= b THEN a ELSE b

(***************************************************************************)
(* re.search over token sequences.  A pattern is a tagged tuple; Ends is   *)
(* the set of positions at which a match starting at position i can end.   *)
(***************************************************************************)
Unbounded == -1
Lit(s) == <<"lit", s>>
Cls(S) == <<"cls", S>>
Dot == <<"dot">>
Digit == Cls({"0", "1", "2", "3", "4", "5", "6", "7", "8", "9"})
Alt(rs) == <<"alt", rs>>
Cat(rs) == <<"cat", rs>>
Rep(r, lo, hi) == <<"rep", r, lo, hi>>
Nla(r) == <<"nla", r>>

RECURSIVE Ends(_, _, _)
Ends(re, s, i) ==
  CASE re[1] = "lit" ->
         IF i + Len(re[2]) - 1 <= Len(s) /\ SubSeq(s, i, i + Len(re[2]) - 1) = re[2]
         THEN {i + Len(re[2])} ELSE {}
    [] re[1] = "cls" -> IF i <= Len(s) /\ s[i] \in re[2] THEN {i + 1} ELSE {}
    [] re[1] = "dot" -> IF i <= Len(s) /\ s[i] # "\n" THEN {i + 1} ELSE {}
    [] re[1] = "alt" -> UNION {Ends(re[2][k], s, i) : k \in 1..Len(re[2])}
    [] re[1] = "cat" ->
         IF Len(re[2]) = 0 THEN {i}
         ELSE UNION {Ends(Cat(Tail(re[2])), s, j) : j \in Ends(Head(re[2]), s, i)}
    [] re[1] = "rep" ->
         LET hi == IF re[4] = Unbounded THEN Len(s) ELSE re[4]
         IN  (IF re[3] = 0 THEN {i} ELSE {})
             \cup (IF hi = 0 THEN {}
                   ELSE UNION {Ends(Rep(re[2], Max(re[3] - 1, 0), hi - 1), s, j) :
                               j \in Ends(re[2], s, i) \ {i}})
    [] re[1] = "nla" -> IF Ends(re[2], s, i) = {} THEN {i} ELSE {}

\* re.search(pattern, text): a match exists at some start position
re_search(pattern, text) == \E i \in 1..(Len(text) + 1) : Ends(pattern, text, i) # {}

\* Python "needle in haystack" on strings
Contains(haystack, needle) ==
  \E i \in 1..(Len(haystack) - Len(needle) + 1) :
     SubSeq(haystack, i, i + Len(needle) - 1) = needle

\* str.lower(): maps the ASCII capitals, leaves every other character alone
AsciiUpper ==
  <<"A", "B", "C", "D", "E", "F", "G", "H", "I", "J", "K", "L", "M",
    "N", "O", "P", "Q", "R", "S", "T", "U", "V", "W", "X", "Y", "Z">>
AsciiLower ==
  <<"a", "b", "c", "d", "e", "f", "g", "h", "i", "j", "k", "l", "m",
    "n", "o", "p", "q", "r", "s", "t", "u", "v", "w", "x", "y", "z">>
LowerChar(c) ==
  IF \E k \in 1..Len(AsciiUpper) : AsciiUpper[k] = c
  THEN AsciiLower[CHOOSE k \in 1..Len(AsciiUpper) : AsciiUpper[k] = c]
  ELSE c
lower(s) == [i \in 1..Len(s) |-> LowerChar(s[i])]


(***************************************************************************)
(* Calls of the pure functions                                             *)
(***************************************************************************)
\* no call was made / the call has not returned
NoCall == [fn |-> "none"]
NotReturned == [done |-> FALSE]
Returned(value) == [done |-> TRUE, value |-> value]

PureIdle ==
  /\ call_args = NoCall
  /\ call_result = NotReturned

\* the gender patterns without their negative lookaheads
genderPatterns_no_lookahead ==
  <<
     Cat(<<Lit(<<"wo", "shi">>), Alt(<<Lit(<<"nan">>), Lit(<<"nv">>), Lit(<<"nan", "sheng">>), Lit(<<"nv", "sheng">>), Lit(<<"nan", "hai", "zi">>), Lit(<<"nv", "hai", "zi">>), Lit(<<"nan", "ren">>), Lit(<<"nv", "ren">>)>>)>>),
     Cat(<<Lit(<<"wo", "shi", "ge">>), Alt(<<Lit(<<"nan">>), Lit(<<"nv">>)>>)>>),
     Cat(<<Lit(<<"wo", "de", "xing", "bie">>), Cls({"shi", "wei"}), Alt(<<Lit(<<"nan">>), Lit(<<"nv">>)>>)>>),
     Cat(<<Lit(<<"xing", "bie">>), Cls({"shi", "wei"}), Alt(<<Lit(<<"nan">>), Lit(<<"nv">>)>>)>>)
  >>

\* STRONG_EVIDENCE_PATTERNS["gender"]
genderPatterns ==
  <<
     \* r"\u6211\u662f(\u7537|\u5973|\u7537\u751f|\u5973\u751f|\u7537\u5b69\u5b50|\u5973\u5b69\u5b50|\u7537\u4eba|\u5973\u4eba)(?!\u670b\u53cb|\u7968|\u795e|\u751f\u670b\u53cb)"
     Cat(<<Lit(<<"wo", "shi">>), Alt(<<Lit(<<"nan">>), Lit(<<"nv">>), Lit(<<"nan", "sheng">>), Lit(<<"nv", "sheng">>), Lit(<<"nan", "hai", "zi">>), Lit(<<"nv", "hai", "zi">>), Lit(<<"nan", "ren">>), Lit(<<"nv", "ren">>)>>), Nla(Alt(<<Lit(<<"peng", "you">>), Lit(<<"piao">>), Lit(<<"shen">>), Lit(<<"sheng", "peng", "you">>)>>))>>),
     \* r"\u6211\u662f\u4e2a(\u7537|\u5973)(?!\u670b\u53cb|\u7968|\u795e)"
     Cat(<<Lit(<<"wo", "shi", "ge">>), Alt(<<Lit(<<"nan">>), Lit(<<"nv">>)>>), Nla(Alt(<<Lit(<<"peng", "you">>), Lit(<<"piao">>), Lit(<<"shen">>)>>))>>),
     \* r"\u6211\u7684\u6027\u522b[\u662f\u4e3a](\u7537|\u5973)"
     Cat(<<Lit(<<"wo", "de", "xing", "bie">>), Cls({"shi", "wei"}), Alt(<<Lit(<<"nan">>), Lit(<<"nv">>)>>)>>),
     \* r"\u6027\u522b[\u662f\u4e3a](\u7537|\u5973)"
     Cat(<<Lit(<<"xing", "bie">>), Cls({"shi", "wei"}), Alt(<<Lit(<<"nan">>), Lit(<<"nv">>)>>)>>)
  >>

\* STRONG_EVIDENCE_PATTERNS["age"]
agePatterns ==
  <<
     \* r"\u6211(\d+)\u5c81[\u4e86]?"
     Cat(<<Lit(<<"wo">>), Rep(Digit, 1, Unbounded), Lit(<<"sui">>), Rep(Cls({"le"}), 0, 1)>>),
     \* r"\u4eca\u5e74(\d+)\u5c81"
     Cat(<<Lit(<<"jin", "nian">>), Rep(Digit, 1, Unbounded), Lit(<<"sui">>)>>),
     \* r"\u51fa\u751f\u4e8e(\d{4})\u5e74"
     Cat(<<Lit(<<"chu", "sheng", "yu">>), Rep(Digit, 4, 4), Lit(<<"nian">>)>>),
     \* r"\u751f\u65e5[\u662f\u4e3a]?(\d{4}[-\u5e74]\d{1,2}[-\u6708]\d{1,2}[\u65e5]?)"
     Cat(<<Lit(<<"sheng", "ri">>), Rep(Cls({"shi", "wei"}), 0, 1), Rep(Digit, 4, 4), Cls({"-", "nian"}), Rep(Digit, 1, 2), Cls({"-", "yue"}), Rep(Digit, 1, 2), Rep(Cls({"ri"}), 0, 1)>>)
  >>

\* STRONG_EVIDENCE_PATTERNS["location"]
locationPatterns ==
  <<
     \* r"\u6211\u5728(.+?)(\u5c45\u4f4f|\u751f\u6d3b|\u5de5\u4f5c|\u4e0a\u5b66|\u8bfb\u4e66)"
     Cat(<<Lit(<<"wo", "zai">>), Rep(Dot, 1, Unbounded), Alt(<<Lit(<<"ju", "zhu">>), Lit(<<"sheng", "huo">>), Lit(<<"gong", "zuo">>), Lit(<<"shang", "xue">>), Lit(<<"du", "shu">>)>>)>>),
     \* r"\u6211\u5bb6\u5728(.+?)(\u5c45\u4f4f|\u751f\u6d3b)?"
     Cat(<<Lit(<<"wo", "jia", "zai">>), Rep(Dot, 1, Unbounded), Rep(Alt(<<Lit(<<"ju", "zhu">>), Lit(<<"sheng", "huo">>)>>), 0, 1)>>),
     \* r"\u4f4f\u5728(.+?)(\u5e02|\u533a|\u53bf|\u7701)"
     Cat(<<Lit(<<"zhu", "zai">>), Rep(Dot, 1, Unbounded), Alt(<<Lit(<<"shi_city">>), Lit(<<"qu">>), Lit(<<"xian">>), Lit(<<"sheng_prov">>)>>)>>),
     \* r"\u6211\u662f(.+?)(\u4eba|\u672c\u5730\u4eba)"
     Cat(<<Lit(<<"wo", "shi">>), Rep(Dot, 1, Unbounded), Alt(<<Lit(<<"ren">>), Lit(<<"ben", "di", "ren">>)>>)>>),
     \* r"\u6765\u81ea(.+?)(\u7701|\u5e02|\u533a|\u53bf)"
     Cat(<<Lit(<<"lai", "zi_self">>), Rep(Dot, 1, Unbounded), Alt(<<Lit(<<"sheng_prov">>), Lit(<<"shi_city">>), Lit(<<"qu">>), Lit(<<"xian">>)>>)>>)
  >>

\* STRONG_EVIDENCE_PATTERNS["job"]
jobPatterns ==
  <<
     \* r"\u6211\u662f(.*)(\u5de5\u7a0b\u5e08|\u7a0b\u5e8f\u5458|\u8bbe\u8ba1\u5e08|\u8001\u5e08|\u533b\u751f|\u5b66\u751f|\u62a4\u58eb|\u8b66\u5bdf|\u5f8b\u5e08)"
     Cat(<<Lit(<<"wo", "shi">>), Rep(Dot, 0, Unbounded), Alt(<<Lit(<<"gong", "cheng", "shi_master">>), Lit(<<"cheng", "xu", "yuan">>), Lit(<<"she", "ji", "shi_master">>), Lit(<<"lao", "shi_master">>), Lit(<<"yi", "sheng">>), Lit(<<"xue", "sheng">>), Lit(<<"hu", "shi_scholar">>), Lit(<<"jing", "cha">>), Lit(<<"lv", "shi_master">>)>>)>>),
     \* r"\u6211\u5728(.+?)(\u5de5\u4f5c|\u4e0a\u73ed|\u5f53\u5dee|\u670d\u5f79)"
     Cat(<<Lit(<<"wo", "zai">>), Rep(Dot, 1, Unbounded), Alt(<<Lit(<<"gong", "zuo">>), Lit(<<"shang", "ban">>), Lit(<<"dang", "chai">>), Lit(<<"fu", "yi_serve">>)>>)>>),
     \* r"\u6211\u7684\u804c\u4e1a[\u662f\u4e3a](.+)"
     Cat(<<Lit(<<"wo", "de", "zhi", "ye">>), Cls({"shi", "wei"}), Rep(Dot, 1, Unbounded)>>),
     \* r"\u6211\u505a(.+?)(\u5de5\u4f5c|\u804c\u4e1a|\u884c\u4e1a)"
     Cat(<<Lit(<<"wo", "zuo_do">>), Rep(Dot, 1, Unbounded), Alt(<<Lit(<<"gong", "zuo">>), Lit(<<"zhi", "ye">>), Lit(<<"hang", "ye">>)>>)>>),
     \* r"\u6211\u662f\u505a(.+?)\u7684"
     Cat(<<Lit(<<"wo", "shi", "zuo_do">>), Rep(Dot, 1, Unbounded), Lit(<<"de">>)>>),
     \* r"\u5f53(.+?)(\u5de5\u7a0b\u5e08|\u8001\u5e08|\u533b\u751f|\u53f8\u673a)"
     Cat(<<Lit(<<"dang">>), Rep(Dot, 1, Unbounded), Alt(<<Lit(<<"gong", "cheng", "shi_master">>), Lit(<<"lao", "shi_master">>), Lit(<<"yi", "sheng">>), Lit(<<"si", "ji_machine">>)>>)>>)
  >>

CONFLICT_PAIRS ==
  <<
     << {<<"xi", "huan">>, <<"zui", "ai">>, <<"ai">>, <<"chao", "ai">>},
        {<<"bu", "xi", "huan">>, <<"yan", "wu">>, <<"fan", "gan">>, <<"hen">>, <<"tao", "yan">>} >>,
     << {<<"wai", "xiang">>, <<"kai", "lang">>, <<"huo", "po">>},
        {<<"nei", "xiang">>, <<"an", "jing_quiet">>, <<"hai_harm", "xiu">>} >>,
     << {<<"yan_strict", "jin_careful">>, <<"xi_fine", "xin">>, <<"ren_know", "zhen">>},
        {<<"cu", "xin">>, <<"sui_follow", "yi_mind">>, <<"ma", "hu_tiger">>} >>,
     << {<<"chi", "rou">>, <<"rou", "shi_food">>},
        {<<"chi", "su">>, <<"su", "shi_food">>} >>,
     << {<<"yang", "mao">>, <<"xi", "huan", "mao">>, <<"mao">>},
        {<<"dui", "mao", "guo", "min">>, <<"mao", "mao_hair", "guo", "min">>} >>,
     << {<<"yang", "gou">>, <<"xi", "huan", "gou">>, <<"gou">>},
        {<<"dui", "gou", "guo", "min">>, <<"gou", "mao_hair", "guo", "min">>} >>
  >>

AllergyMark == <<"guo", "min">>
AllergyReferents == {<<"hai_sea", "xian_fresh">>, <<"gou">>, <<"mao">>, <<"mang", "guo_fruit">>, <<"hua", "sheng">>}
(***************************************************************************)
(* ProfileGuardian                                                         *)
(***************************************************************************)
STRONG_EVIDENCE_PATTERNS(field) ==
  CASE field = "gender" -> genderPatterns
    [] field = "age" -> agePatterns
    [] field = "location" -> locationPatterns
    [] field = "job" -> jobPatterns
    [] OTHER -> <<>>

fully_protected ==
  {"qq_id", "nickname", "avatar_url", "signature", "birthday", "constellation", "zodiac"}
evidence_protected == {"gender", "age", "location", "job"}
BasicFields == fully_protected \cup evidence_protected

categories == {"personality_tags", "hobbies", "skills"}
pref_categories ==
  {"favorite_foods", "favorite_items", "favorite_activities", "likes", "dislikes"}

\* "old_val and old_val != SENTINEL and old_val != ''"
IsSet(v) == v # None /\ v # "" /\ v # Sentinel

_check_strong_evidence(field, memory_texts) ==
  \E k \in 1..Len(STRONG_EVIDENCE_PATTERNS(field)) :
     re_search(STRONG_EVIDENCE_PATTERNS(field)[k], memory_texts)

\* _protect_basic_info without the loop over the fully protected fields
_protect_basic_info_evidence_only(old_basic, new_basic, memory_texts) ==
  [f \in BasicFields |->
     IF /\ config.enable_strong_evidence
        /\ f \in evidence_protected
        /\ IsSet(old_basic[f])
        /\ new_basic[f] # old_basic[f]
        /\ ~_check_strong_evidence(f, memory_texts)
     THEN old_basic[f]
     ELSE new_basic[f]]

\* _protect_basic_info that logs a missing evidence match but keeps the new value
_protect_basic_info_no_block(old_basic, new_basic, memory_texts) ==
  [f \in BasicFields |->
     IF f \in fully_protected /\ IsSet(old_basic[f])
     THEN old_basic[f] ELSE new_basic[f]]

_protect_basic_info(old_basic, new_basic, memory_texts) ==
  LET result1 == [f \in BasicFields |->
                    IF f \in fully_protected /\ IsSet(old_basic[f])
                    THEN old_basic[f] ELSE new_basic[f]]
  IN  [f \in BasicFields |->
         IF /\ config.enable_strong_evidence
            /\ f \in evidence_protected
            /\ IsSet(old_basic[f])
            /\ new_basic[f] # old_basic[f]
            /\ ~_check_strong_evidence(f, memory_texts)
         THEN old_basic[f]
         ELSE result1[f]]

\* f"{category}:{value}"
Key(category, value) == category \o ":" \o value

\* proposal_map: the pending proposal stored under a key, if any
proposal_map(current_proposals) ==
  {p \in current_proposals : p.category # None /\ p.category # "" /\ p.value # None}
HasKey(current_proposals, key) ==
  \E p \in proposal_map(current_proposals) : Key(p.category, p.value) = key
PropOf(current_proposals, key) ==
  CHOOSE p \in proposal_map(current_proposals) : Key(p.category, p.value) = key

\* Promoted with the promotion test "confidence > threshold"
Promoted_strict(old_attrs, new_attrs, current_proposals, category) ==
  {item \in new_attrs[category] \ old_attrs[category] :
     \/ ~config.enable_confidence
     \/ /\ \E p \in current_proposals : Key(p.category, p.value) = Key(category, item)
        /\ \E p \in current_proposals :
              /\ Key(p.category, p.value) = Key(category, item)
              /\ p.confidence + 1 > config.confidence_threshold
     \/ /\ ~\E p \in current_proposals : Key(p.category, p.value) = Key(category, item)
        /\ ~(config.confidence_threshold > 1)}

\* the items of one category that the loop appends to final_list
Promoted(old_attrs, new_attrs, current_proposals, category) ==
  {item \in new_attrs[category] \ old_attrs[category] :
     \/ ~config.enable_confidence
     \/ /\ HasKey(current_proposals, Key(category, item))
        /\ PropOf(current_proposals, Key(category, item)).confidence + 1
             >= config.confidence_threshold
     \/ /\ ~HasKey(current_proposals, Key(category, item))
        /\ ~(config.confidence_threshold > 1)}

\* the proposals the loop appends to next_proposals
LoopProposals(old_attrs, new_attrs, current_proposals, now) ==
  UNION {
    {IF HasKey(current_proposals, Key(category, item))
     THEN [PropOf(current_proposals, Key(category, item)) EXCEPT
             !.confidence = @ + 1, !.last_seen = now]
     ELSE [category |-> category, value |-> item, confidence |-> 1,
           first_seen |-> now, last_seen |-> now] :
     item \in {i \in new_attrs[category] \ old_attrs[category] :
                 /\ config.enable_confidence
                 /\ i \notin Promoted(old_attrs, new_attrs, current_proposals, category)}}
    : category \in categories}

\* _process_attributes_with_confidence carrying every unlisted proposal forward,
\* without looking it up in result_attrs
_process_attributes_carry_all(old_attrs, new_attrs, current_proposals, now) ==
  LET result_attrs == [c \in categories |->
                         old_attrs[c] \cup Promoted(old_attrs, new_attrs, current_proposals, c)]
      looped == LoopProposals(old_attrs, new_attrs, current_proposals, now)
      current_keys == {Key(p.category, p.value) : p \in looped}
      carried == {p \in proposal_map(current_proposals) :
                    Key(p.category, p.value) \notin current_keys}
  IN  [attributes |-> result_attrs, pending_proposals |-> looped \cup carried]

\* _process_attributes_with_confidence without the loop over proposal_map that
\* carries the unlisted proposals forward
_process_attributes_no_carry(old_attrs, new_attrs, current_proposals, now) ==
  LET result_attrs == [c \in categories |->
                         old_attrs[c] \cup Promoted(old_attrs, new_attrs, current_proposals, c)]
      looped == LoopProposals(old_attrs, new_attrs, current_proposals, now)
  IN  [attributes |-> result_attrs, pending_proposals |-> looped]

_process_attributes_with_confidence(old_attrs, new_attrs, current_proposals, now) ==
  LET result_attrs == [c \in categories |->
                         old_attrs[c] \cup Promoted(old_attrs, new_attrs, current_proposals, c)]
      looped == LoopProposals(old_attrs, new_attrs, current_proposals, now)
      current_keys == {Key(p.category, p.value) : p \in looped}
      carried == {p \in proposal_map(current_proposals) :
                    /\ Key(p.category, p.value) \notin current_keys
                    /\ ~(p.category \in categories /\ p.value \in result_attrs[p.category])}
  IN  [attributes |-> result_attrs, pending_proposals |-> looped \cup carried]

\* preference items the LLM proposes:
\* U+559C U+6B22 U+732B, U+8BA8 U+538C U+732B, U+4E0D U+559C U+6B22 U+732B,
\* U+732B U+6BDB U+8FC7 U+654F, U+897F U+74DC
ItemOrder ==
  << <<"xi", "huan", "mao">>, <<"tao", "yan", "mao">>, <<"bu", "xi", "huan", "mao">>,
     <<"mao", "mao_hair", "guo", "min">>, <<"xi_west", "gua">> >>
Items == {ItemOrder[k] : k \in 1..Len(ItemOrder)}

RECURSIVE check_pairs_from(_, _, _)
check_pairs_from(k, old_lower, new_lower) ==
  IF k > Len(CONFLICT_PAIRS) THEN None
  ELSE LET positive_set == CONFLICT_PAIRS[k][1]
           negative_set == CONFLICT_PAIRS[k][2]
           old_positive == \E p \in positive_set : Contains(old_lower, p)
           old_negative == \E n \in negative_set : Contains(old_lower, n)
           new_positive == \E p \in positive_set : Contains(new_lower, p)
           new_negative == \E n \in negative_set : Contains(new_lower, n)
       IN  IF (old_positive /\ new_negative) \/ (old_negative /\ new_positive)
           THEN "sentiment_conflict"
           ELSE IF /\ Contains(old_lower, AllergyMark)
                   /\ ~Contains(new_lower, AllergyMark)
                   /\ \E p \in AllergyReferents : Contains(old_lower, p)
                   /\ \E p \in AllergyReferents : Contains(new_lower, p)
                THEN "allergy_conflict"
                ELSE check_pairs_from(k + 1, old_lower, new_lower)

_check_item_conflict(old_item, new_item) ==
  check_pairs_from(1, lower(old_item), lower(new_item))

\* _check_item_conflict tabulated once over the items of the model
ConflictTable == [o \in Items, n \in Items |-> _check_item_conflict(o, n)]

\* the old items a new item conflicts with
ConflictingOld(old_list, new_item) ==
  {o \in old_list : ConflictTable[o, new_item] # None}

\* "for old_item in old_list ... break": the first conflicting old item in
\* the iteration order of the set, given as the sequence iter
FirstConflicting(old_list, new_item, iter) ==
  LET k == CHOOSE k \in 1..Len(iter) :
             /\ iter[k] \in ConflictingOld(old_list, new_item)
             /\ \A j \in 1..(k - 1) : iter[j] \notin ConflictingOld(old_list, new_item)
  IN  iter[k]

\* _merge_preferences_with_conflict_detection that records a conflict but
\* merges the whole new list all the same
_merge_preferences_record_only(old_prefs, new_prefs, iter) ==
  LET filtered_new(c) == {n \in new_prefs[c] : ConflictingOld(old_prefs[c], n) = {}}
  IN  [result |-> [c \in pref_categories |-> old_prefs[c] \cup new_prefs[c]],
       conflicts |->
         IF ~config.enable_conflict_detection THEN {}
         ELSE UNION {
           {[type |-> "preference_conflict",
             category |-> c,
             old_value |-> FirstConflicting(old_prefs[c], n, iter),
             new_value |-> n,
             conflict_type |->
               ConflictTable[FirstConflicting(old_prefs[c], n, iter), n]] :
            n \in new_prefs[c] \ filtered_new(c)}
           : c \in pref_categories}]

_merge_preferences_with_conflict_detection(old_prefs, new_prefs, iter) ==
  LET filtered_new(c) == {n \in new_prefs[c] : ConflictingOld(old_prefs[c], n) = {}}
  IN  [result |->
         [c \in pref_categories |->
            IF ~config.enable_conflict_detection
            THEN old_prefs[c] \cup new_prefs[c]
            ELSE old_prefs[c] \cup filtered_new(c)],
       conflicts |->
         IF ~config.enable_conflict_detection THEN {}
         ELSE UNION {
           {[type |-> "preference_conflict",
             category |-> c,
             old_value |-> FirstConflicting(old_prefs[c], n, iter),
             new_value |-> n,
             conflict_type |->
               ConflictTable[FirstConflicting(old_prefs[c], n, iter), n]] :
            n \in new_prefs[c] \ filtered_new(c)}
           : c \in pref_categories}]

\* non-empty dict: "if old_stats:"
Truthy(stats) == stats.kind = "stats"

validate_update(current_profile, new_profile, memory_texts, now, iter) ==
  LET attr == _process_attributes_with_confidence(
                current_profile.attributes, new_profile.attributes,
                current_profile.pending_proposals, now)
      pref == _merge_preferences_with_conflict_detection(
                current_profile.preferences, new_profile.preferences, iter)
      old_stats == current_profile.social_graph.interaction_stats
      new_social == new_profile.social_graph
  IN  [validated |->
         [basic_info |-> _protect_basic_info(current_profile.basic_info,
                                             new_profile.basic_info, memory_texts),
          attributes |-> attr.attributes,
          pending_proposals |-> attr.pending_proposals,
          preferences |-> pref.result,
          social_graph |->
            IF Truthy(old_stats)
            THEN [new_social EXCEPT !.interaction_stats = old_stats]
            ELSE new_social,
          dev_metadata |->
            IF new_profile.dev_metadata # None THEN new_profile.dev_metadata
            ELSE current_profile.dev_metadata,
          shared_secrets |->
            IF new_profile.shared_secrets # None THEN new_profile.shared_secrets
            ELSE current_profile.shared_secrets],
       conflicts |-> pref.conflicts]


(***************************************************************************)
(* The summaries and queries of the model                                  *)
(***************************************************************************)
\* the summaries of owner U1 in the vector index:
\*   m1 U+559C U+6B22 U+897F U+74DC, m2 U+5929 U+6C14 U+6674,
\*   m3 U+7528 "AI" U+5199 U+4EE3 U+7801, m4 U+5403 U+897F U+74DC
Corpus ==
  << [index_id |-> "m1", summary |-> <<"xi", "huan", "xi_west", "gua">>],
     [index_id |-> "m2", summary |-> <<"tian", "qi", "qing">>],
     [index_id |-> "m3", summary |-> <<"yong", "A", "I", "xie", "dai", "ma_code">>],
     [index_id |-> "m4", summary |-> <<"chi", "xi_west", "gua">>] >>
IndexIds == {Corpus[k].index_id : k \in 1..Len(Corpus)}

\* queries: U+897F U+74DC, U+6211, "AI " U+897F U+74DC, ""
Queries ==
  { <<"xi_west", "gua">>, <<"wo">>, <<"A", "I", " ", "xi_west", "gua">>, <<>> }
ModelTexts == Queries \cup {Corpus[k].summary : k \in 1..Len(Corpus)}

(***************************************************************************)
(* MemoryManager: keyword extraction and keyword scoring                   *)
(***************************************************************************)
\* the characters of the range U+4E00..U+9FA5 that occur in the model
ChineseChars ==
  { "a_ah", "ai", "an", "ba", "ban", "bei", "ben", "bie", "bu", "cha", "chai", "chao",
    "cheng", "chi", "chu", "cu", "dai", "dang", "de", "di", "du", "dui", "fan", "fu",
    "gan", "ge", "gong", "gou", "gua", "guo", "guo_fruit", "hai", "hai_harm",
    "hai_sea", "hang", "he", "hen", "hu", "hu_tiger", "hua", "huan", "huo", "ji",
    "ji_and", "ji_machine", "jia", "jin", "jin_careful", "jing", "jing_capital",
    "jing_quiet", "jiu", "ju", "kai", "lai", "lang", "lao", "le", "lv", "ma",
    "ma_code", "ma_q", "mang", "mao", "mao_hair", "min", "na", "nan", "ne", "nei",
    "ni", "nian", "nv", "peng", "piao", "po", "qi", "qing", "qu", "ren", "ren_know",
    "ri", "rou", "san", "shang", "she", "shen", "sheng", "sheng_prov", "shi",
    "shi_city", "shi_food", "shi_master", "shi_scholar", "shu", "si", "su", "sui",
    "sui_follow", "ta", "ta_it", "ta_she", "tao", "tian", "tiao", "wai", "wei", "wo",
    "wu", "xi", "xi_fine", "xi_west", "xian", "xian_fresh", "xiang", "xie", "xin",
    "xing", "xiu", "xu", "xue", "ya", "yan", "yan_strict", "yang", "ye", "ye_also",
    "yi", "yi_mind", "yi_serve", "yong", "you", "yu", "yu_and", "yuan", "yue", "zai",
    "zhe", "zhen", "zhi", "zhu", "zi", "zi_self", "zui", "zuo", "zuo_do" }
Digits == {"0", "1", "2", "3", "4", "5", "6", "7", "8", "9"}
\* [a-z0-9]
AlnumChars == {AsciiLower[k] : k \in 1..Len(AsciiLower)} \cup Digits
\* \w of a str pattern: letters of any script, digits and the underscore
WordChars ==
  AlnumChars \cup {AsciiUpper[k] : k \in 1..Len(AsciiUpper)} \cup ChineseChars \cup {"_"}

_CHINESE_PATTERN == Cls(ChineseChars)
_ENGLISH_WORD_PATTERN ==
  Cat(<<Rep(Cls(AlnumChars), 1, Unbounded),
        Rep(Cat(<<Lit(<<"'">>), Rep(Cls(AlnumChars), 1, Unbounded)>>), 0, 1)>>)
_CHINESE_BLOCK_PATTERN == Rep(Cls(ChineseChars), 1, Unbounded)
\* the separator of re.split(r'[^\w]+', query) is every run outside \w+
WordRunPattern == Rep(Cls(WordChars), 1, Unbounded)

\* the largest element of a non-empty set of integers
SetMax(S) == CHOOSE x \in S : \A y \in S : y <= x

\* pattern.findall(s) from position i on, for patterns whose greedy match is
\* the longest one: the non-overlapping matches from left to right
RECURSIVE findall_from(_, _, _)
findall_from(pattern, s, i) ==
  IF i > Len(s) THEN <<>>
  ELSE LET ends == Ends(pattern, s, i) \ {i}
       IN  IF ends = {} THEN findall_from(pattern, s, i + 1)
           ELSE <<SubSeq(s, i, SetMax(ends) - 1)>> \o findall_from(pattern, s, SetMax(ends))
findall(pattern, s) == findall_from(pattern, s, 1)

\* collections.Counter of a sequence, and Counter.get(key, 0)
Counter(seq) ==
  [x \in {seq[i] : i \in DOMAIN seq} |-> Cardinality({i \in DOMAIN seq : seq[i] = x})]
Get(counter, key) == IF key \in DOMAIN counter THEN counter[key] ELSE 0

common_stopwords ==
  { <<"a">>, <<"a", "n">>, <<"t", "h", "e">>, <<"t", "o">>, <<"o", "f">>, <<"i", "n">>,
    <<"o", "n">>, <<"a", "t">>, <<"i", "s">>, <<"a", "r", "e">>, <<"i">>,
    <<"y", "o", "u">>, <<"h", "e">>, <<"s", "h", "e">>, <<"i", "t">>,
    <<"wo">>, <<"ni">>, <<"ta">>, <<"ta_she">>, <<"ta_it">>, <<"zhe">>, <<"na">>,
    <<"le">>, <<"a_ah">>, <<"ya">>, <<"ma_q">>, <<"ne">>, <<"ba">>, <<"he">>,
    <<"yu_and">>, <<"ji_and">>, <<"jiu">>, <<"ye_also">> }
protected_tokens ==
  { <<"a", "i">>, <<"m", "l">>, <<"d", "b">>, <<"g", "o">>, <<"c">>, <<"r">> }

\* the effective n-gram bounds read from the configuration
\* the minimum taken from the option as it is
min_n_as_configured(cfg) == cfg.keyword_ngram_min
min_n(cfg) == Max(2, cfg.keyword_ngram_min)
max_n(cfg) == Min(Max(min_n(cfg), cfg.keyword_ngram_max), 6)

\* the occurrences (block, n, start) of Chinese n-grams in a text
GramOccurrences(blocks, cfg) ==
  UNION { {<<b, n, i>> : i \in 1..(Len(blocks[b]) - n + 1)} :
          b \in 1..Len(blocks), n \in min_n(cfg)..max_n(cfg) }
GramAt(blocks, o) == SubSeq(blocks[o[1]], o[3], o[3] + o[2] - 1)

\* summary_ngrams_zh: the Counter of the Chinese n-grams of a text
ngram_counter(text, cfg) ==
  LET blocks == findall(_CHINESE_BLOCK_PATTERN, text)
      occ == GramOccurrences(blocks, cfg)
  IN  [g \in {GramAt(blocks, o) : o \in occ} |->
         Cardinality({o \in occ : GramAt(blocks, o) = g})]
\* sum(counter.values())
SumValues(text, cfg) ==
  Cardinality(GramOccurrences(findall(_CHINESE_BLOCK_PATTERN, text), cfg))
\* summary_tokens_en: the Counter of the English words of a text
english_counter(text) == Counter(findall(_ENGLISH_WORD_PATTERN, lower(text)))

\* the two Counters of a text and the number of its n-grams
TextCounters(text, cfg) ==
  [summary_tokens_en |-> english_counter(text),
   summary_ngrams_zh |-> ngram_counter(text, cfg),
   ngram_total |-> SumValues(text, cfg)]
\* TextCounters tabulated once over the texts of the model, for the default
\* n-gram bounds
DefaultNgram == [keyword_ngram_min |-> 2, keyword_ngram_max |-> 4]
TextCountersTable == [text \in ModelTexts |-> TextCounters(text, DefaultNgram)]
CountersOf(text, cfg) ==
  IF /\ text \in ModelTexts
     /\ min_n(cfg) = min_n(DefaultNgram)
     /\ max_n(cfg) = max_n(DefaultNgram)
  THEN TextCountersTable[text]
  ELSE TextCounters(text, cfg)

_generate_query_keywords(query, cfg) ==
  LET english_tokens == findall(_ENGLISH_WORD_PATTERN, lower(query))
      kept == {english_tokens[i] : i \in
                 {j \in DOMAIN english_tokens :
                    /\ ~(Len(english_tokens[j]) <= 1 /\ english_tokens[j] \notin protected_tokens)
                    /\ english_tokens[j] \notin common_stopwords}}
      grams == DOMAIN CountersOf(query, cfg).summary_ngrams_zh
  IN  kept \cup (grams \ common_stopwords)

\* the keywords of the legacy ranking: the query split at every run of
\* non-word characters, lowered
legacy_query_keywords(query) ==
  LET parts == findall(WordRunPattern, query)
  IN  {lower(parts[i]) : i \in DOMAIN parts}

_count_keyword_matches(keyword, summary_tokens_en, summary_ngrams_zh) ==
  IF keyword = <<>> THEN 0
  ELSE IF re_search(_CHINESE_PATTERN, keyword) THEN Get(summary_ngrams_zh, keyword)
  ELSE Get(summary_tokens_en, lower(keyword))

(***************************************************************************)
(* Exact arithmetic for the floating point scores: a score is a fraction   *)
(* <<numerator, denominator>> in lowest terms, denominator > 0.            *)
(***************************************************************************)
RECURSIVE GCD(_, _)
GCD(a, b) == IF b = 0 THEN a ELSE GCD(b, a % b)
Frac(n, d) == IF n = 0 THEN <<0, 1>> ELSE <<n \div GCD(n, d), d \div GCD(n, d)>>
FInt(n) == <<n, 1>>
FAdd(x, y) ==
  LET g == GCD(x[2], y[2])
  IN  Frac(x[1] * (y[2] \div g) + y[1] * (x[2] \div g), (x[2] \div g) * y[2])
\* x - y for x >= y
FSub(x, y) ==
  LET g == GCD(x[2], y[2])
  IN  Frac(x[1] * (y[2] \div g) - y[1] * (x[2] \div g), (x[2] \div g) * y[2])
FMul(x, y) ==
  LET a == Frac(x[1], y[2])
      b == Frac(y[1], x[2])
  IN  <<a[1] * b[1], a[2] * b[2]>>
\* x / y for y > 0
FDiv(x, y) == FMul(x, <<y[2], y[1]>>)
\* x < y for fractions >= 0, by continued fractions (no products)
RECURSIVE FLess(_, _)
FLess(x, y) ==
  LET qx == x[1] \div x[2]
      qy == y[1] \div y[2]
      rx == x[1] % x[2]
      ry == y[1] % y[2]
  IN  IF qx # qy THEN qx < qy
      ELSE IF ry = 0 THEN FALSE
      ELSE IF rx = 0 THEN TRUE
      ELSE FLess(<<y[2], ry>>, <<x[2], rx>>)
FMin(x, y) == IF FLess(y, x) THEN y ELSE x
FMax(x, y) == IF FLess(x, y) THEN y ELSE x

\* sum of f[k] over a finite set of keys
RECURSIVE FSum(_, _)
FSum(f, S) ==
  IF S = {} THEN FInt(0)
  ELSE LET k == CHOOSE k \in S : TRUE IN FAdd(f[k], FSum(f, S \ {k}))
RECURSIVE ISum(_, _)
ISum(f, S) ==
  IF S = {} THEN 0
  ELSE LET k == CHOOSE k \in S : TRUE IN f[k] + ISum(f, S \ {k})

_bm25_k1 == <<6, 5>>
_bm25_b == <<3, 4>>
_avg_doc_len == 80

\* the BM25 term-frequency saturation both scorers share
norm_tf(tf, doc_len) ==
  FDiv(FMul(FInt(tf), FAdd(_bm25_k1, FInt(1))),
       FAdd(FInt(tf),
            FMul(_bm25_k1,
                 FAdd(FSub(FInt(1), _bm25_b),
                      FMul(_bm25_b, Frac(doc_len, _avg_doc_len))))))

_calc_keyword_score(query, summary, corpus_stats, cfg) ==
  LET query_keywords == _generate_query_keywords(query, cfg)
      summary_tokens_en == CountersOf(summary, cfg).summary_tokens_en
      summary_ngrams_zh == CountersOf(summary, cfg).summary_ngrams_zh
      doc_len == Max(1, Cardinality(DOMAIN summary_tokens_en)
                          + CountersOf(summary, cfg).ngram_total)
      total_docs == Max(1, corpus_stats.total_docs)
      tf == [k \in query_keywords |->
               _count_keyword_matches(k, summary_tokens_en, summary_ngrams_zh)]
      matched == {k \in query_keywords : tf[k] > 0}
      matched_tf_sum == ISum(tf, matched)
      idf(k) == FAdd(FInt(1), Frac(total_docs + 1, Get(corpus_stats.keyword_doc_freq, k) + 1))
      term == [k \in matched |-> FMul(norm_tf(tf[k], doc_len), FMin(FInt(4), idf(k)))]
      keyword_score == FSum(term, matched)
      coverage_bonus == FMin(<<3, 2>>, Frac(matched_tf_sum, Max(1, Cardinality(query_keywords))))
  IN  IF query_keywords = {} \/ summary = <<>> THEN FInt(0)
      ELSE FMul(keyword_score, FAdd(FInt(1), FMul(<<3, 20>>, coverage_bonus)))

\* str.count(sub): the non-overlapping occurrences from left to right
RECURSIVE count_from(_, _, _)
count_from(s, sub, i) ==
  IF i + Len(sub) - 1 > Len(s) THEN 0
  ELSE IF SubSeq(s, i, i + Len(sub) - 1) = sub THEN 1 + count_from(s, sub, i + Len(sub))
  ELSE count_from(s, sub, i + 1)

_calc_keyword_score_legacy(query_keywords, summary) ==
  LET summary_lower == lower(summary)
      doc_len == Max(1, Len(summary_lower))
      hit == {k \in query_keywords : Contains(summary_lower, k)}
      term == [k \in hit |->
                 FMul(norm_tf(count_from(summary_lower, k, 1), doc_len),
                      FMax(FInt(1), FMin(FInt(3), Frac(Len(k), 2))))]
  IN  IF query_keywords = {} \/ summary = <<>> THEN FInt(0)
      ELSE FSum(term, hit)

(***************************************************************************)
(* MemoryManager.retrieve_memories: filter, rank, truncate, reinforce      *)
(***************************************************************************)
rrf_k == 60

\* sorted(range(n), key=..., reverse=...) is stable: the 1-based rank of index
\* i among the keys (fractions); equal keys keep their order, also when reversed
StableRank(keys, reverse, i) ==
  1 + Cardinality({j \in 1..Len(keys) :
                     \/ IF reverse THEN FLess(keys[i], keys[j]) ELSE FLess(keys[j], keys[i])
                     \/ (keys[j] = keys[i] /\ j < i)})
\* the list a stable sort produces from seq
StableSort(seq, keys, reverse) ==
  [p \in 1..Len(seq) |-> seq[CHOOSE i \in 1..Len(seq) : StableRank(keys, reverse, i) = p]]

candidate_memories_unfiltered(cfg, results) == results

\* first loop: the results whose distance does not exceed the threshold
candidate_memories(cfg, results) ==
  SelectSeq(results, LAMBDA r : ~(r.distance > cfg.memory_similarity_threshold))

query_keywords_of(cfg, query) ==
  IF cfg.enable_ngram_keyword_rank THEN _generate_query_keywords(query, cfg)
  ELSE legacy_query_keywords(query)

\* document frequency of each query keyword among the candidates
keyword_doc_freq(cfg, query_keywords, candidates) ==
  LET counters == [i \in 1..Len(candidates) |-> CountersOf(candidates[i].summary, cfg)]
      df == [k \in query_keywords |->
               Cardinality({i \in 1..Len(candidates) :
                  _count_keyword_matches(k, counters[i].summary_tokens_en,
                                         counters[i].summary_ngrams_zh) > 0})]
  IN  [k \in {q \in query_keywords : df[q] > 0} |-> df[k]]

\* memory_data before ranking: the candidates with their keyword_score
memory_data(cfg, query, results) ==
  LET candidates == candidate_memories(cfg, results)
      query_keywords == query_keywords_of(cfg, query)
      corpus_stats == [total_docs |-> Len(candidates),
                       keyword_doc_freq |-> keyword_doc_freq(cfg, query_keywords, candidates)]
  IN  [i \in 1..Len(candidates) |->
         [index_id |-> candidates[i].index_id,
          summary |-> candidates[i].summary,
          distance |-> candidates[i].distance,
          keyword_score |->
            IF cfg.enable_ngram_keyword_rank
            THEN _calc_keyword_score(query, candidates[i].summary, corpus_stats, cfg)
            ELSE _calc_keyword_score_legacy(query_keywords, candidates[i].summary)]]

UseRRF_ignoring_switch(cfg, query_keywords, n) == query_keywords # {} /\ n > 1

\* the condition of the RRF branch
UseRRF(cfg, query_keywords, n) ==
  cfg.enable_keyword_boost /\ query_keywords # {} /\ n > 1

vector_rank(data, i) ==
  StableRank([j \in 1..Len(data) |-> FInt(data[j].distance)], FALSE, i)
keyword_rank(data, i) ==
  StableRank([j \in 1..Len(data) |-> data[j].keyword_score], TRUE, i)

rrf_score_keyword_only(cfg, data, i) ==
  FDiv(cfg.keyword_boost_weight, FInt(rrf_k + keyword_rank(data, i)))

rrf_score(cfg, data, i) ==
  LET keyword_w == cfg.keyword_boost_weight
      vector_w == FSub(FInt(1), keyword_w)
  IN  FAdd(FDiv(vector_w, FInt(rrf_k + vector_rank(data, i))),
           FDiv(keyword_w, FInt(rrf_k + keyword_rank(data, i))))

\* the display score of the fallback branch: max(0, 1 - distance / 2), with
\* the distance in tenths
fallback_score(distance) == IF distance >= 20 THEN FInt(0) ELSE Frac(20 - distance, 20)

WithScore(d, score) ==
  [index_id |-> d.index_id, summary |-> d.summary, distance |-> d.distance,
   keyword_score |-> d.keyword_score, rrf_score |-> score]

\* steps 3 and 4: the scored candidates sorted by the ranker
ranked_memory_data(cfg, query, data) ==
  LET scored == IF UseRRF(cfg, query_keywords_of(cfg, query), Len(data))
                THEN [i \in 1..Len(data) |-> WithScore(data[i], rrf_score(cfg, data, i))]
                ELSE [i \in 1..Len(data) |-> WithScore(data[i], fallback_score(data[i].distance))]
  IN  IF UseRRF(cfg, query_keywords_of(cfg, query), Len(data))
      THEN StableSort(scored, [j \in 1..Len(scored) |-> scored[j].rrf_score], TRUE)
      ELSE StableSort(scored, [j \in 1..Len(scored) |-> FInt(scored[j].distance)], FALSE)

\* memory_data[:limit]
Truncate(seq, limit) == SubSeq(seq, 1, Min(limit, Len(seq)))

\* step 5: one entry of all_memories per surviving record, in list order
all_memories(data) ==
  [i \in 1..Len(data) |-> [index_id |-> data[i].index_id, summary |-> data[i].summary]]

(***************************************************************************)
(* Retrieval calls                                                         *)
(***************************************************************************)
\* bounds of the model
MaxResults == 3
MaxLimit == 2

\* vector distances in tenths; the default threshold 1.5 is 15
DistanceValues == {3, 15, 16}

RetrieveConfigs(boosts, weights, ngram) ==
  [enable_keyword_boost : boosts, keyword_boost_weight : weights,
   enable_ngram_keyword_rank : ngram, keyword_ngram_min : {2}, keyword_ngram_max : {4},
   memory_similarity_threshold : {15}, memory_reinforce_bonus : {20}]

\* "n_results": min(limit * 3, 15)
n_results(limit) == Min(limit * 3, 15)

\* collection.query: at most n_results distinct summaries of the owner, nearest first
QueryResults(limit) ==
  UNION { { [i \in 1..k |-> [index_id |-> Corpus[pick[i]].index_id,
                             summary |-> Corpus[pick[i]].summary,
                             distance |-> dist[i]]] :
              pick \in {p \in [1..k -> 1..Len(Corpus)] :
                          \A a, b \in 1..k : a # b => p[a] # p[b]},
              dist \in {d \in [1..k -> DistanceValues] :
                          \A a, b \in 1..k : a < b => d[a] <= d[b]} } :
          k \in 0..Min(MaxResults, n_results(limit)) }

\* summaries whose update_active_score call raises
ReinforceFailures == {{}, {"m1"}}

RetrieveIdle ==
  /\ rPhase = "idle"
  /\ rConfig \in RetrieveConfigs({TRUE}, {<<1, 2>>}, {TRUE})
  /\ rQuery = <<>>
  /\ rLimit = 3
  /\ rResults = <<>>
  /\ rData = <<>>
  /\ rRanked = <<>>
  /\ rOutput = <<>>
  /\ active_score = [id \in IndexIds |-> 100]
  /\ bump_calls = [id \in IndexIds |-> 0]
  /\ rRaised = {}

\* retrieve_memories when collection.query returns nothing
RetrieveNothing ==
  /\ rPhase = "called"
  /\ rResults = <<>>
  /\ rData' = <<>>
  /\ rRanked' = <<>>
  /\ rOutput' = <<>>
  /\ rPhase' = "returned"
  /\ UNCHANGED <<rConfig, rQuery, rLimit, rResults, active_score, bump_calls, rRaised,
                 gvars, avars, cvars, dvars, svars, pvars>>

reinforce_until_failure(ranked, failed, reinforce_bonus) ==
  LET ids == [i \in 1..Len(ranked) |-> ranked[i].index_id]
      stop == IF \E i \in 1..Len(ids) : ids[i] \in failed
              THEN CHOOSE i \in 1..Len(ids) :
                     ids[i] \in failed /\ \A j \in 1..(i - 1) : ids[j] \notin failed
              ELSE Len(ids)
  IN  IF ranked # <<>> /\ reinforce_bonus > 0
      THEN [called |-> {ids[i] : i \in 1..stop},
            raised |-> {ids[i] : i \in 1..stop} \cap failed]
      ELSE [called |-> {}, raised |-> {}]

\* step 6: update_active_score is called for every record of memory_data;
\* an exception of one call is caught inside the loop
reinforce(ranked, failed, reinforce_bonus) ==
  LET ids == {ranked[i].index_id : i \in 1..Len(ranked)}
  IN  IF ranked # <<>> /\ reinforce_bonus > 0
      THEN [called |-> ids, raised |-> ids \cap failed]
      ELSE [called |-> {}, raised |-> {}]

\* retrieve_memories on a non-empty query result; failed are the summaries
\* whose update_active_score call raises (caught and logged)
Retrieve(failed) ==
  /\ rPhase = "called"
  /\ rResults # <<>>
  /\ rData' = memory_data(rConfig, rQuery, rResults)
  /\ rRanked' = Truncate(ranked_memory_data(rConfig, rQuery, rData'), rLimit)
  /\ rOutput' = all_memories(rRanked')
  /\ LET calls == reinforce(rRanked', failed, rConfig.memory_reinforce_bonus)
     IN  /\ bump_calls' = [id \in IndexIds |-> IF id \in calls.called THEN 1 ELSE 0]
         /\ rRaised' = calls.raised
         /\ active_score' = [id \in IndexIds |->
                               IF id \in calls.called \ calls.raised
                               THEN active_score[id] + rConfig.memory_reinforce_bonus
                               ELSE active_score[id]]
  /\ rPhase' = "returned"
  /\ UNCHANGED <<rConfig, rQuery, rLimit, rResults, gvars, avars, cvars, dvars, svars, pvars>>

(***************************************************************************)
(* Archival: MemoryManager._summarize_private_chat                         *)
(***************************************************************************)
\* bounds of the model
MaxDays == 2
MaxRuns == 2

\* retry caps of the vector write and of the LLM call
max_retries == 3
summarize_max_retries == 3
retry_delay == 2
min_summary_len == 5

\* the entry of the log of invocations for a text_chat call that raised
Raised == 0 - 1

\* lengths of the completion texts the provider returns
CompletionLens == {0, 4, 5}

\* the default of the option command_prefixes
command_prefixes == << <<"/">>, <<"!">>, <<"#">>, <<"~">> >>

\* the characters str.strip removes
Whitespace == {" ", "\n", "\t"}

\* str.strip
RECURSIVE strip(_)
strip(s) ==
  IF s = <<>> THEN s
  ELSE IF Head(s) \in Whitespace THEN strip(Tail(s))
  ELSE IF s[Len(s)] \in Whitespace THEN strip(SubSeq(s, 1, Len(s) - 1))
  ELSE s

\* str.startswith
startswith(s, prefix) == Len(prefix) <= Len(s) /\ SubSeq(s, 1, Len(prefix)) = prefix

\* the list of prefixes the predicate tests: an option that is one string
\* is a list of that string, and empty prefixes are left out
PrefixList(option) ==
  LET listed == IF option.kind = "str" THEN <<option.value>> ELSE option.value
  IN  SelectSeq(listed, LAMBDA p : p # <<>>)

\* the predicate with the second rule testing the underscore alone
is_valid_message_content_any_underscore(text, enable_command_filter, option) ==
  LET content == strip(text)
      chinese_chars == SelectSeq(content, LAMBDA c : c \in ChineseChars)
      prefixes == PrefixList(option)
  IN  IF enable_command_filter
         /\ \E k \in 1..Len(prefixes) : startswith(content, prefixes[k])
      THEN FALSE
      ELSE IF \E i \in 1..Len(content) : content[i] = "_"
      THEN FALSE
      ELSE IF Len(chinese_chars) < 2 /\ Len(content) < 10
      THEN FALSE
      ELSE TRUE

\* _is_valid_message_content under the options enable_command_filter and
\* command_prefixes
_is_valid_message_content(text, enable_command_filter, option) ==
  LET content == strip(text)
      chinese_chars == SelectSeq(content, LAMBDA c : c \in ChineseChars)
      prefixes == PrefixList(option)
  IN  IF enable_command_filter
         /\ \E k \in 1..Len(prefixes) : startswith(content, prefixes[k])
      THEN FALSE
      ELSE IF (\E i \in 1..Len(content) : content[i] = "_")
              /\ ~(\E i \in 1..Len(content) : content[i] = " ")
      THEN FALSE
      ELSE IF Len(chinese_chars) < 2 /\ Len(content) < 10
      THEN FALSE
      ELSE TRUE

\* the option command_prefixes left at its default
DefaultPrefixes == [kind |-> "list", value |-> command_prefixes]

\* message texts of the model: an ordinary sentence and a command
ChatText == <<"xi", "huan", "xi_west", "gua">>
CommandText == <<"/", "h", "e", "l", "p">>
\* the messages of one day, oldest first
DayMessages == {<<ChatText, ChatText>>, <<CommandText, ChatText>>, <<CommandText>>}

\* RawMemory.uuid of message n of day d
Uuid(d, n) == <<d, n>>
Uuids == UNION {{Uuid(d, n) : n \in 1..Len(raw_memory[d])} : d \in 1..Len(raw_memory)}
UuidsOfDay(d) == {u \in Uuids : u[1] = d}

\* the sequence of the elements of a set of days in ascending order
SortedDays(S) ==
  CHOOSE s \in [1..Cardinality(S) -> S] : \A i, j \in 1..Cardinality(S) : i < j => s[i] < s[j]

\* get_unarchived_raw, reversed and grouped by date: one group per day that
\* has unarchived messages, oldest first
get_unarchived_groups ==
  LET days == {d \in 1..Len(raw_memory) : \E u \in UuidsOfDay(d) : ~is_archived[u]}
      order == SortedDays(days)
  IN  [k \in 1..Len(order) |->
         [date_key |-> order[k],
          ref_uuids |-> {u \in UuidsOfDay(order[k]) : ~is_archived[u]}]]

\* str(uuid.uuid4()): a fresh id, here the run and the day of the batch
IndexId(n, date_key) == <<n, date_key>>

\* prev_index_id of the first summary of an owner (None)
NoIndex == <<0, 0>>

\* db.get_last_memory_index(user_id): the row with the latest created_at
get_last_memory_index ==
  IF memory_index = {} THEN NoIndex
  ELSE (CHOOSE p \in memory_index :
          \A q \in memory_index : q.created_at <= p.created_at).index_id

\* filtered_msgs of _process_single_summary_batch
filtered_msgs(group) ==
  {u \in group.ref_uuids : _is_valid_message_content(raw_memory[u[1]][u[2]], TRUE, DefaultPrefixes)}

\* the locals of a run that has not started
NoRun(n) ==
  [n |-> n, pc |-> "idle", outcome |-> "none", raw_msgs |-> <<>>, pos |-> 0, attempt |-> 0,
   batch_add |-> <<>>, index_params_list |-> <<>>, save_pos |-> 0,
   prev_index_id |-> NoIndex,
   archive_uuids_forced |-> {}, archive_uuids_summarized |-> {},
   sent |-> {}, llm_failed |-> {}, full_content |-> 0,
   trace |-> FALSE, unavailable |-> {},
   completions |-> [d \in 1..MaxDays |-> <<>>], slept |-> [d \in 1..MaxDays |-> <<>>]]

Ended(r, outcome) == [r EXCEPT !.pc = "ended", !.outcome = outcome]

\* the for loop over the day groups moves on; after the last group the
\* forced archive follows
NextGroup(r) ==
  IF r.pos + 1 > Len(r.raw_msgs)
  THEN [r EXCEPT !.pos = r.pos + 1, !.pc = "mark_forced"]
  ELSE [r EXCEPT !.pos = r.pos + 1, !.pc = "group"]

ArchiveIdle ==
  /\ raw_memory = <<>>
  /\ old_days = 0
  /\ is_archived = <<>>
  /\ collection = {}
  /\ memory_index = {}
  /\ run = NoRun(0)

\* _summarize_private_chat is called: the unarchived messages are read
StartRun ==
  /\ run.pc \in {"idle", "ended"}
  /\ run.n < MaxRuns
  /\ LET raw == get_unarchived_groups
     IN  run' = IF raw = <<>>
                THEN Ended([NoRun(run.n + 1) EXCEPT !.trace = run.trace], "completed")
                ELSE [NoRun(run.n + 1) EXCEPT !.pc = "group", !.raw_msgs = raw, !.pos = 1,
                                              !.trace = run.trace,
                                              !.prev_index_id = get_last_memory_index]
  /\ UNCHANGED <<raw_memory, old_days, is_archived, collection, memory_index, gvars, rvars, cvars, dvars, svars, pvars>>

\* one day group up to the LLM call: groups before the cutoff date and
\* groups without valid content are queued for the forced archive
ProcessGroup ==
  /\ run.pc = "group"
  /\ LET group == run.raw_msgs[run.pos]
     IN  run' =
           IF group.date_key <= old_days \/ filtered_msgs(group) = {}
           THEN NextGroup([run EXCEPT !.archive_uuids_forced = @ \cup group.ref_uuids])
           ELSE [run EXCEPT !.pc = "llm", !.attempt = 0, !.full_content = 0,
                            !.sent = @ \cup {group.date_key}]
  /\ UNCHANGED <<raw_memory, old_days, is_archived, collection, memory_index, gvars, rvars, cvars, dvars, svars, pvars>>

\* the history of the attempt loops of a run, kept when r.trace is set:
\* the outcome of every invocation of day d, the delays slept, the days whose
\* provider was missing
LogInvocation(r, d, outcome) ==
  IF r.trace THEN [r EXCEPT !.completions[d] = Append(@, outcome)] ELSE r
LogSleep(r, d, delay) == IF r.trace THEN [r EXCEPT !.slept[d] = Append(@, delay)] ELSE r
LogUnavailable(r, d) == IF r.trace THEN [r EXCEPT !.unavailable = @ \cup {d}] ELSE r

\* len(full_content) >= 5
acceptable_check_nonempty(full_content) == full_content >= 1

acceptable(full_content) == full_content >= min_summary_len

\* the end of the retry loop of a batch: a summary when full_content is
\* acceptable, None otherwise
BatchResult(r) ==
  LET group == r.raw_msgs[r.pos]
      index_id == IndexId(r.n, group.date_key)
  IN  IF acceptable(r.full_content)
      THEN NextGroup([r EXCEPT
             !.full_content = 0,
             !.batch_add = Append(@, index_id),
             !.index_params_list =
                Append(@, [index_id |-> index_id, ref_uuids |-> group.ref_uuids,
                           prev_index_id |-> r.prev_index_id,
                           created_at |-> group.date_key]),
             !.prev_index_id = index_id,
             !.archive_uuids_summarized = @ \cup group.ref_uuids])
      ELSE NextGroup([r EXCEPT !.full_content = 0, !.llm_failed = @ \cup {group.date_key}])

\* the end of an attempt that produced no acceptable completion: sleep
\* retry_delay and try again while attempts remain
RetryOrGiveUp(r) ==
  LET d == r.raw_msgs[r.pos].date_key
  IN  IF r.attempt < summarize_max_retries - 1
      THEN LogSleep([r EXCEPT !.attempt = @ + 1], d, retry_delay)
      ELSE BatchResult(r)

\* one iteration of the attempt loop for the current group; full_content is
\* the length of the completion text kept in the local of that name
TextChat(result, completion_len) ==
  /\ run.pc = "llm"
  /\ LET d == run.raw_msgs[run.pos].date_key
     IN  run' =
           CASE result = "no_provider" -> BatchResult(LogUnavailable(run, d))
             [] result = "exception" ->
                  RetryOrGiveUp(LogInvocation(run, d, Raised))
             [] OTHER ->
                  LET r == [LogInvocation(run, d, completion_len) EXCEPT
                             !.full_content = completion_len]
                  IN  IF acceptable(completion_len) THEN BatchResult(r) ELSE RetryOrGiveUp(r)
  /\ UNCHANGED <<raw_memory, old_days, is_archived, collection, memory_index, gvars, rvars, cvars, dvars, svars, pvars>>

\* mark_as_archived(archive_uuids_forced), then the return when no summary
\* was produced
MarkForced(ok) ==
  /\ run.pc = "mark_forced"
  /\ (run.archive_uuids_forced = {}) => ok
  /\ is_archived' = IF ok
                    THEN [u \in Uuids |-> is_archived[u] \/ u \in run.archive_uuids_forced]
                    ELSE is_archived
  /\ run' = IF ~ok THEN Ended(run, "error")
            ELSE IF run.batch_add = <<>> THEN Ended(run, "completed")
            ELSE [run EXCEPT !.pc = "add", !.attempt = 1]
  /\ UNCHANGED <<raw_memory, old_days, collection, memory_index, gvars, rvars, cvars, dvars, svars, pvars>>

\* one attempt of collection.add(**batch_add)
CollectionAdd(ok) ==
  /\ run.pc = "add"
  /\ collection' = IF ok
                   THEN collection \cup {run.batch_add[i] : i \in 1..Len(run.batch_add)}
                   ELSE collection
  /\ run' = IF ok THEN [run EXCEPT !.pc = "save", !.save_pos = 1]
            ELSE IF run.attempt >= max_retries THEN Ended(run, "add_exhausted")
            ELSE [run EXCEPT !.attempt = @ + 1]
  /\ UNCHANGED <<raw_memory, old_days, is_archived, memory_index, gvars, rvars, cvars, dvars, svars, pvars>>

SaveIndex_continue_on_error(ok) ==
  /\ run.pc = "save"
  /\ memory_index' = IF ok
                     THEN memory_index \cup {run.index_params_list[run.save_pos]}
                     ELSE memory_index
  /\ run' = IF run.save_pos + 1 > Len(run.index_params_list)
            THEN [run EXCEPT !.pc = "mark_summarized", !.save_pos = @ + 1]
            ELSE [run EXCEPT !.save_pos = @ + 1]
  /\ UNCHANGED <<raw_memory, old_days, is_archived, collection, gvars, rvars, cvars, dvars, svars, pvars>>

\* db.save_memory_index for the next entry of index_params_list; an error
\* is not caught
SaveIndex(ok) ==
  /\ run.pc = "save"
  /\ memory_index' = IF ok
                     THEN memory_index \cup {run.index_params_list[run.save_pos]}
                     ELSE memory_index
  /\ run' = IF ~ok THEN Ended(run, "error")
            ELSE IF run.save_pos + 1 > Len(run.index_params_list)
            THEN [run EXCEPT !.pc = "mark_summarized", !.save_pos = @ + 1]
            ELSE [run EXCEPT !.save_pos = @ + 1]
  /\ UNCHANGED <<raw_memory, old_days, is_archived, collection, gvars, rvars, cvars, dvars, svars, pvars>>

\* mark_as_archived(archive_uuids_summarized), the last statement
MarkSummarized(ok) ==
  /\ run.pc = "mark_summarized"
  /\ is_archived' = IF ok
                    THEN [u \in Uuids |-> is_archived[u] \/ u \in run.archive_uuids_summarized]
                    ELSE is_archived
  /\ run' = IF ok THEN Ended(run, "completed") ELSE Ended(run, "error")
  /\ UNCHANGED <<raw_memory, old_days, collection, memory_index, gvars, rvars, cvars, dvars, svars, pvars>>

\* the task is cancelled while it waits at one of its await points
Cancel ==
  /\ run.pc \in {"group", "llm", "mark_forced", "add", "save", "mark_summarized"}
  /\ run' = Ended(run, "cancelled")
  /\ UNCHANGED <<raw_memory, old_days, is_archived, collection, memory_index, gvars, rvars, cvars, dvars, svars, pvars>>


(***************************************************************************)
(* Lazy initialization: MemoryManager._ensure_chroma_initialized           *)
(***************************************************************************)
\* bounds of the model
MaxCallers == 3
MaxCalls == 2

Callers == 1..MaxCallers
\* asyncio.Lock not held
Unlocked == 0

ChromaIdle ==
  /\ cPc = [c \in Callers |-> "idle"]
  /\ cCalls = [c \in Callers |-> 0]
  /\ _chroma_init_lock = Unlocked
  /\ _chroma_initialized = FALSE
  /\ chroma_handles = [chroma_client |-> None, collection |-> None]
  /\ init_started = 0
  /\ init_succeeded = 0
  /\ init_failed = 0

LockedSection_no_recheck(c) ==
  /\ cPc' = [cPc EXCEPT ![c] = "init"]
  /\ _chroma_init_lock' = c
  /\ init_started' = init_started + 1

\* with the lock held: the second check of the flag, then either the return
\* (the lock is released) or the start of _init_chroma in the executor
LockedSection(c) ==
  IF _chroma_initialized
  THEN /\ cPc' = [cPc EXCEPT ![c] = "returned"]
       /\ _chroma_init_lock' = Unlocked
       /\ init_started' = init_started
  ELSE /\ cPc' = [cPc EXCEPT ![c] = "init"]
       /\ _chroma_init_lock' = c
       /\ init_started' = init_started + 1

\* a caller enters: the first check of the flag; a free lock is taken
\* without suspending, a held lock suspends the caller
EnsureChroma(c) ==
  /\ cPc[c] \in {"idle", "returned", "raised"}
  /\ cCalls[c] < MaxCalls
  /\ cCalls' = [cCalls EXCEPT ![c] = @ + 1]
  /\ IF _chroma_initialized
     THEN /\ cPc' = [cPc EXCEPT ![c] = "returned"]
          /\ UNCHANGED <<_chroma_init_lock, init_started>>
     ELSE IF _chroma_init_lock = Unlocked
     THEN LockedSection(c)
     ELSE /\ cPc' = [cPc EXCEPT ![c] = "waiting"]
          /\ UNCHANGED <<_chroma_init_lock, init_started>>
  /\ UNCHANGED <<_chroma_initialized, chroma_handles, init_succeeded, init_failed,
                 gvars, rvars, avars, dvars, svars, pvars>>

\* a suspended caller obtains the released lock
LockAcquired(c) ==
  /\ cPc[c] = "waiting"
  /\ _chroma_init_lock = Unlocked
  /\ LockedSection(c)
  /\ UNCHANGED <<cCalls, _chroma_initialized, chroma_handles, init_succeeded, init_failed,
                 gvars, rvars, avars, dvars, svars, pvars>>

\* run_in_executor(_init_chroma) finishes: client and collection are
\* assigned and the flag is set, or the exception is logged and raised again
InitChromaDone(c, ok) ==
  /\ cPc[c] = "init"
  /\ _chroma_init_lock' = Unlocked
  /\ IF ok
     THEN /\ chroma_handles' = [chroma_client |-> "client", collection |-> "collection"]
          /\ _chroma_initialized' = TRUE
          /\ init_succeeded' = init_succeeded + 1
          /\ cPc' = [cPc EXCEPT ![c] = "returned"]
          /\ UNCHANGED init_failed
     ELSE /\ init_failed' = init_failed + 1
          /\ cPc' = [cPc EXCEPT ![c] = "raised"]
          /\ UNCHANGED <<chroma_handles, _chroma_initialized, init_succeeded>>
  /\ UNCHANGED <<cCalls, init_started, gvars, rvars, avars, dvars, svars, pvars>>

(***************************************************************************)
(* delete_memory_by_sequence and undo_last_delete                          *)
(***************************************************************************)
\* bounds of the model
MaxSummaries == 2
MaxUndoOps == 2
MaxHistorySummaries == 4
MaxHistoryOps == 5

_max_undo_history == 3

\* the owners of the stored data
Owners == {"U1", "U2"}

\* a null column (prev_index_id of the first summary)
Null == 0

\* the embedding function of the collection, applied to a document
Embed(document) == <<"embedding", document>>

\* created_at.strftime("%Y-%m-%d %H:%M:%S")
strftime(created_at) == <<"time", created_at>>

\* the MemoryIndex row of summary k as the archival run saved it
IndexRow(k) ==
  [index_id |-> k, summary |-> <<"summary", k>>, ref_uuids |-> <<<<k, 1>>, <<k, 2>>>>,
   prev_index_id |-> IF k = 1 THEN Null ELSE k - 1, source_type |-> "private",
   user_id |-> "U1", created_at |-> k, active_score |-> IF k % 2 = 1 THEN 120 ELSE 100]

\* the collection entry of summary k as the archival run added it
VectorEntry(k) ==
  [id |-> k, document |-> <<"summary", k>>,
   metadata |-> [user_id |-> "U1", source_type |-> "private",
                 created_at |-> strftime(k), ai_name |-> "ai"],
   embedding |-> Embed(<<"summary", k>>)]

\* json.loads(ref_uuids) as a set
RefSet(ref_uuids) == {ref_uuids[i] : i \in 1..Len(ref_uuids)}

\* the stores holding n archived summaries
UndoStores(n) ==
  /\ mem_rows = {IndexRow(k) : k \in 1..n}
  /\ vec_entries = {VectorEntry(k) : k \in 1..n}
  /\ raw_rows = [u \in UNION {RefSet(IndexRow(k).ref_uuids) : k \in 1..n} |-> TRUE]
  /\ _delete_history = [user_id \in Owners |-> <<>>]
  /\ dOps = 0
  /\ dSerial = 0
  /\ dLog = <<>>
  /\ dDisplaced = {}
  /\ dBefore = [index_id |-> Null]
  /\ dPrev = [op |-> "none"]
  /\ dLast = [op |-> "none"]

UndoIdle == UndoStores(0)

\* db.get_memory_list(user_id, limit): the newest rows of the owner first
\* (rows of one created_at in an order the database picks)
get_memory_list(user_id, limit) ==
  LET rows == {r \in mem_rows : r.user_id = user_id}
      newest == CHOOSE s \in [1..Cardinality(rows) -> rows] :
                  /\ \A i, j \in 1..Cardinality(rows) : i < j => s[i] # s[j]
                  /\ \A i, j \in 1..Cardinality(rows) :
                        i < j => s[i].created_at >= s[j].created_at
  IN  SubSeq(newest, 1, Min(limit, Cardinality(rows)))

\* collection.get(ids=[index_id], include=[embeddings, metadatas, documents])
\* turned into vector_data; get_failed is an exception of the call
vector_data_of(index_id, get_failed) ==
  IF ~get_failed /\ \E v \in vec_entries : v.id = index_id
  THEN LET v == CHOOSE v \in vec_entries : v.id = index_id
       IN  [present |-> TRUE, embedding |-> v.embedding, metadata |-> v.metadata,
            document |-> v.document]
  ELSE [present |-> FALSE]

\* self._delete_history[user_id].insert(0, delete_record), then the cut
\* to the newest _max_undo_history records
insert_record(history, delete_record) ==
  SubSeq(<<delete_record>> \o history, 1, Min(Len(history) + 1, _max_undo_history))

\* RawMemory.update(is_archived=flag).where(RawMemory.uuid << uuids)
mark_rows(rows, uuids, flag) ==
  [u \in DOMAIN rows |-> IF u \in uuids THEN flag ELSE rows[u]]

\* RawMemory.delete().where(RawMemory.uuid << uuids)
delete_rows(rows, uuids) == [u \in (DOMAIN rows) \ uuids |-> rows[u]]

\* the steps of a delete that lie after the failing one are not executed
DeleteSteps == <<"init", "record", "vector", "raw", "index", "done">>
StepNo(step) == CHOOSE i \in 1..Len(DeleteSteps) : DeleteSteps[i] = step
Reached(fail_at, step) == StepNo(step) < StepNo(fail_at)

\* delete_memory_by_sequence(user_id, sequence_num, delete_raw); fail_at
\* names the first call that raises ("done": none), get_failed an exception
\* of collection.get
Delete(user_id, sequence_num, delete_raw, fail_at, get_failed, max_ops) ==
  /\ dOps < max_ops
  /\ dOps' = dOps + 1
  /\ LET memories == get_memory_list(user_id, sequence_num + 2)
     IN  IF Len(memories) < sequence_num
         THEN /\ dLast' = [op |-> "delete", ok |-> FALSE, found |-> FALSE, user_id |-> user_id]
              /\ dPrev' = dLast
              /\ UNCHANGED <<mem_rows, vec_entries, raw_rows, _delete_history, dSerial, dLog,
                             dDisplaced, dBefore>>
         ELSE LET target_memory == memories[sequence_num]
                  index_id == target_memory.index_id
                  deleted_uuids == RefSet(target_memory.ref_uuids)
                  delete_record ==
                    [index_id |-> index_id, summary |-> target_memory.summary,
                     ref_uuids |-> target_memory.ref_uuids,
                     prev_index_id |-> target_memory.prev_index_id,
                     source_type |-> target_memory.source_type, user_id |-> user_id,
                     created_at |-> target_memory.created_at,
                     active_score |-> target_memory.active_score,
                     delete_raw |-> delete_raw, deleted_uuids |-> deleted_uuids,
                     vector_data |-> vector_data_of(index_id, get_failed),
                     serial |-> dSerial + 1]
                  recorded == Reached(fail_at, "record")
              IN  /\ dBefore' =
                       [index_id |-> index_id, row |-> target_memory,
                        entries |-> {v \in vec_entries : v.id = index_id},
                        archived |-> {u \in deleted_uuids \cap DOMAIN raw_rows : raw_rows[u]}]
                  /\ _delete_history' =
                       IF recorded
                       THEN [_delete_history EXCEPT
                               ![user_id] = insert_record(_delete_history[user_id],
                                                          delete_record)]
                       ELSE _delete_history
                  /\ dSerial' = IF recorded THEN dSerial + 1 ELSE dSerial
                  /\ dLog' = IF recorded
                             THEN <<[serial |-> dSerial + 1, completed |-> fail_at = "done"]>> \o dLog
                             ELSE dLog
                  /\ dDisplaced' =
                       IF recorded /\ Len(_delete_history[user_id]) = _max_undo_history
                       THEN dDisplaced \cup {_delete_history[user_id][_max_undo_history].serial}
                       ELSE dDisplaced
                  /\ vec_entries' = IF Reached(fail_at, "vector")
                                    THEN {v \in vec_entries : v.id # index_id}
                                    ELSE vec_entries
                  /\ raw_rows' = IF ~Reached(fail_at, "raw") THEN raw_rows
                                 ELSE IF delete_raw /\ target_memory.ref_uuids # <<>>
                                 THEN delete_rows(raw_rows, deleted_uuids)
                                 ELSE mark_rows(raw_rows, deleted_uuids, FALSE)
                  /\ mem_rows' = IF Reached(fail_at, "index")
                                 THEN {r \in mem_rows : r.index_id # index_id}
                                 ELSE mem_rows
                  /\ dLast' = [op |-> "delete", ok |-> fail_at = "done", found |-> TRUE,
                               index_id |-> index_id, delete_raw |-> delete_raw,
                               captured |-> delete_record.vector_data.present,
                               user_id |-> user_id]
                  /\ dPrev' = dLast
  /\ UNCHANGED <<gvars, rvars, avars, cvars, svars, pvars>>

\* delete_memory_by_id(user_id, short_id, delete_raw); fail_at names the
\* first call that raises ("done": none). No delete record is kept and the
\* raw messages are touched only when delete_raw is set
DeleteById(user_id, short_id, delete_raw, fail_at, max_ops) ==
  /\ dOps < max_ops
  /\ dOps' = dOps + 1
  /\ LET found == {r \in mem_rows : r.user_id = user_id /\ r.index_id = short_id}
     IN  IF found = {}
         THEN /\ dLast' = [op |-> "delete_by_id", ok |-> FALSE, found |-> FALSE,
                           user_id |-> user_id]
              /\ dPrev' = dLast
              /\ UNCHANGED <<mem_rows, vec_entries, raw_rows, dBefore>>
         ELSE LET target_memory == CHOOSE r \in found : TRUE
                  index_id == target_memory.index_id
                  uuids == RefSet(target_memory.ref_uuids)
              IN  /\ dBefore' =
                       [index_id |-> index_id, row |-> target_memory,
                        entries |-> {v \in vec_entries : v.id = index_id},
                        archived |-> {u \in uuids \cap DOMAIN raw_rows : raw_rows[u]}]
                  /\ vec_entries' = IF Reached(fail_at, "vector")
                                    THEN {v \in vec_entries : v.id # index_id}
                                    ELSE vec_entries
                  /\ raw_rows' = IF /\ Reached(fail_at, "raw")
                                    /\ delete_raw /\ target_memory.ref_uuids # <<>>
                                 THEN delete_rows(raw_rows, uuids)
                                 ELSE raw_rows
                  /\ mem_rows' = IF Reached(fail_at, "index")
                                 THEN {r \in mem_rows : r.index_id # index_id}
                                 ELSE mem_rows
                  /\ dLast' = [op |-> "delete_by_id", ok |-> fail_at = "done", found |-> TRUE,
                               index_id |-> index_id, delete_raw |-> delete_raw,
                               captured |-> FALSE, user_id |-> user_id]
                  /\ dPrev' = dLast
  /\ UNCHANGED <<_delete_history, dSerial, dLog, dDisplaced>>
  /\ UNCHANGED <<gvars, rvars, avars, cvars, svars, pvars>>

\* an undo that always regenerates the entry from the summary
restored_entry_regenerated(delete_record) ==
  [id |-> delete_record.index_id, document |-> delete_record.summary,
   metadata |-> [user_id |-> delete_record.user_id,
                 source_type |-> delete_record.source_type,
                 created_at |-> strftime(delete_record.created_at)],
   embedding |-> Embed(delete_record.summary)]

\* the entry undo_last_delete adds to the collection
restored_entry(delete_record) ==
  IF delete_record.vector_data.present /\ delete_record.vector_data.embedding # <<>>
  THEN [id |-> delete_record.index_id, document |-> delete_record.vector_data.document,
        metadata |-> delete_record.vector_data.metadata,
        embedding |-> delete_record.vector_data.embedding]
  ELSE [id |-> delete_record.index_id, document |-> delete_record.summary,
        metadata |-> [user_id |-> delete_record.user_id,
                 source_type |-> delete_record.source_type,
                      created_at |-> strftime(delete_record.created_at)],
        embedding |-> Embed(delete_record.summary)]

\* the row undo_last_delete saves
restored_row(delete_record) ==
  [index_id |-> delete_record.index_id, summary |-> delete_record.summary,
   ref_uuids |-> delete_record.ref_uuids, prev_index_id |-> delete_record.prev_index_id,
   source_type |-> delete_record.source_type, user_id |-> delete_record.user_id,
   created_at |-> delete_record.created_at, active_score |-> delete_record.active_score]

\* serial of the newest deletion of the log that was carried out, 0 if none
newest_completed(log) ==
  IF \E i \in 1..Len(log) : log[i].completed
  THEN log[CHOOSE i \in 1..Len(log) :
             log[i].completed /\ \A j \in 1..(i - 1) : ~log[j].completed].serial
  ELSE 0

UndoSteps == <<"save", "init", "add", "mark", "done">>
UndoStepNo(step) == CHOOSE i \in 1..Len(UndoSteps) : UndoSteps[i] = step

\* undo_last_delete(user_id); fail_at names the first call that raises;
\* save_memory_index also raises when the row's primary key exists
Undo(user_id, fail_at, max_ops) ==
  /\ dOps < max_ops
  /\ dOps' = dOps + 1
  /\ dPrev' = dLast
  /\ IF _delete_history[user_id] = <<>>
     THEN /\ dLast' = [op |-> "undo", ok |-> FALSE, found |-> FALSE, user_id |-> user_id]
          /\ UNCHANGED <<mem_rows, vec_entries, raw_rows, _delete_history, dSerial, dLog,
                         dDisplaced, dBefore>>
     ELSE LET delete_record == Head(_delete_history[user_id])
              duplicate == \E r \in mem_rows : r.index_id = delete_record.index_id
              stop == IF duplicate THEN "save" ELSE fail_at
              done(step) == UndoStepNo(step) < UndoStepNo(stop)
              ok == stop \in {"mark", "done"}
          IN  /\ mem_rows' = IF done("save")
                             THEN mem_rows \cup {restored_row(delete_record)}
                             ELSE mem_rows
              /\ vec_entries' = IF done("add")
                                THEN vec_entries \cup {restored_entry(delete_record)}
                                ELSE vec_entries
              /\ raw_rows' = IF done("mark")
                             THEN mark_rows(raw_rows, delete_record.deleted_uuids, TRUE)
                             ELSE raw_rows
              /\ _delete_history' = IF ok
                                    THEN [_delete_history EXCEPT ![user_id] = Tail(@)]
                                    ELSE _delete_history
              /\ dLog' = IF ok THEN Tail(dLog) ELSE dLog
              /\ dLast' = [op |-> "undo", ok |-> ok, found |-> TRUE,
                           index_id |-> delete_record.index_id,
                           serial |-> delete_record.serial,
                           newest_completed |-> newest_completed(dLog),
                           mark_failed |-> stop = "mark", user_id |-> user_id]
              /\ UNCHANGED <<dSerial, dDisplaced, dBefore>>
  /\ UNCHANGED <<gvars, rvars, avars, cvars, svars, pvars>>

\* ---- lookups by sequence number: get_memory_detail and the first step of
\* ---- delete_memory_by_sequence, for two owners of one store
\* summary k of an owner, with or without references to raw messages
OwnerRow(user_id, k, has_refs) ==
  [IndexRow(k) EXCEPT !.user_id = user_id,
                      !.index_id = IF user_id = "U1" THEN k ELSE k + MaxSummaries,
                      !.prev_index_id = IF k = 1 THEN Null
                                        ELSE IF user_id = "U1" THEN k - 1
                                        ELSE k - 1 + MaxSummaries,
                      !.ref_uuids = IF has_refs THEN <<<<user_id, k, 1>>, <<user_id, k, 2>>>>
                                    ELSE <<>>]

\* the stores of an owner: no summary, or summaries 1..n each with or without
\* references
OwnerStores(user_id) ==
  UNION {{{OwnerRow(user_id, k, has_refs[k]) : k \in 1..n} : has_refs \in [1..n -> BOOLEAN]} :
           n \in 0..MaxSummaries}

\* get_memory_detail(user_id, sequence_num): (None, message) or
\* (target_memory, raw_msgs)
get_memory_detail(user_id, sequence_num) ==
  LET memories == get_memory_list(user_id, sequence_num + 2)
  IN  IF Len(memories) = 0 \/ Len(memories) < sequence_num
      THEN <<[index_id |-> Null], <<"str", "not_found_sequence">>>>
      ELSE LET target_memory == memories[sequence_num]
           IN  IF target_memory.ref_uuids = <<>>
               THEN <<target_memory, <<"list", {}>>>>
               ELSE <<target_memory,
                      <<"list", RefSet(target_memory.ref_uuids) \cap DOMAIN raw_rows>>>>

\* what delete_memory_by_sequence(user_id, sequence_num) returns when no
\* storage call raises: (success, message, summary)
delete_memory_by_sequence_returns(user_id, sequence_num) ==
  LET memories == get_memory_list(user_id, sequence_num + 2)
  IN  IF Len(memories) = 0 \/ Len(memories) < sequence_num
      THEN <<FALSE, "not_found_sequence", <<>>>>
      ELSE <<TRUE, "deleted", memories[sequence_num].summary>>

\* one lookup of the same sequence number for each owner
LookupBySequence ==
  /\ call_args.fn \in {"get_memory_detail", "delete_memory_by_sequence"}
  /\ ~call_result.done
  /\ call_result' =
       Returned([user_id \in Owners |->
                   IF call_args.fn = "get_memory_detail"
                   THEN get_memory_detail(user_id, call_args.sequence_num)
                   ELSE delete_memory_by_sequence_returns(user_id, call_args.sequence_num)])
  /\ UNCHANGED <<call_args, gvars, rvars, avars, cvars, dvars, svars>>

\* ---- the stores of two owners under the operations of each of them ----
MaxOwnerSummaries == 1
MaxOwnerOps == 2

memory_reinforce_bonus == 20

\* RawMemory.user_id (and session_id) and the day of a raw message
RawOwner(uuid) == uuid[1]
RawDay(uuid) == uuid[2]

\* the collection entry of a summary row
EntryOf(row) ==
  [id |-> row.index_id, document |-> row.summary,
   metadata |-> [user_id |-> row.user_id, source_type |-> "private",
                 created_at |-> strftime(row.created_at), ai_name |-> "ai"],
   embedding |-> Embed(row.summary)]

\* each owner has archived summaries of the days 1..n and one unarchived
\* message of the day after
OwnerData(n) ==
  /\ mem_rows = {OwnerRow(user_id, k, TRUE) : user_id \in Owners, k \in 1..n}
  /\ vec_entries = {EntryOf(OwnerRow(user_id, k, TRUE)) : user_id \in Owners, k \in 1..n}
  /\ raw_rows = [uuid \in {<<user_id, k, m>> : user_id \in Owners, k \in 1..n, m \in 1..2}
                           \cup {<<user_id, n + 1, 1>> : user_id \in Owners}
                   |-> uuid[2] <= n]
  /\ _delete_history = [user_id \in Owners |-> <<>>]
  /\ dOps = 0
  /\ dSerial = 0
  /\ dLog = <<>>
  /\ dDisplaced = {}
  /\ dBefore = [index_id |-> Null]
  /\ dPrev = [op |-> "none"]
  /\ dLast = [op |-> "none"]

\* MemoryIndex.delete().where(MemoryIndex.user_id == user_id) and
\* collection.delete(where={"user_id": user_id})
delete_rows_everyone(rows, user_id) == {}
delete_rows_of(rows, user_id) == {r \in rows : r.user_id # user_id}
delete_entries_of(entries, user_id) == {v \in entries : v.metadata.user_id # user_id}

\* the bookkeeping every operation of this part shares
OwnerOpWithin(op, user_id, ok, max_ops) ==
  /\ dOps < max_ops
  /\ dOps' = dOps + 1
  /\ dPrev' = dLast
  /\ dLast' = [op |-> op, ok |-> ok, user_id |-> user_id]
  /\ UNCHANGED <<_delete_history, dSerial, dLog, dDisplaced, dBefore>>
  /\ UNCHANGED <<gvars, rvars, avars, cvars, svars, pvars>>

OwnerOp(op, user_id, ok) == OwnerOpWithin(op, user_id, ok, MaxOwnerOps)

\* handle_mem_clear_raw: the unarchived raw messages of the owner are deleted
ClearRaw(user_id, ok) ==
  /\ OwnerOp("clear_raw", user_id, ok)
  /\ raw_rows' = IF ok
                 THEN [uuid \in {u \in DOMAIN raw_rows : ~(RawOwner(u) = user_id /\ ~raw_rows[u])}
                         |-> raw_rows[uuid]]
                 ELSE raw_rows
  /\ UNCHANGED <<mem_rows, vec_entries>>

\* handle_mem_clear_archive: the summaries of the owner are deleted, the raw
\* messages marked unarchived, then the collection entries deleted; done
\* counts the statements that ran before one raised
ClearArchive(user_id, done) ==
  /\ OwnerOp("clear_archive", user_id, done = 3)
  /\ mem_rows' = IF done >= 1 THEN delete_rows_of(mem_rows, user_id) ELSE mem_rows
  /\ raw_rows' = IF done >= 2
                 THEN [uuid \in DOMAIN raw_rows |->
                         IF RawOwner(uuid) = user_id THEN FALSE ELSE raw_rows[uuid]]
                 ELSE raw_rows
  /\ vec_entries' = IF done >= 3 THEN delete_entries_of(vec_entries, user_id) ELSE vec_entries

\* handle_mem_clear_all: clear_user_data deletes the raw messages and the
\* summaries of the owner, then the collection entries are deleted
ClearAll(user_id, done) ==
  /\ OwnerOp("clear_all", user_id, done = 3)
  /\ raw_rows' = IF done >= 1
                 THEN [uuid \in {u \in DOMAIN raw_rows : RawOwner(u) # user_id} |-> raw_rows[uuid]]
                 ELSE raw_rows
  /\ mem_rows' = IF done >= 2 THEN delete_rows_of(mem_rows, user_id) ELSE mem_rows
  /\ vec_entries' = IF done >= 3 THEN delete_entries_of(vec_entries, user_id) ELSE vec_entries

\* the summary row an archival run saves for the unarchived messages of a day
ArchivedRow(user_id, date_key, prev_index_id, index_id) ==
  LET uuids == {u \in DOMAIN raw_rows :
                  RawOwner(u) = user_id /\ RawDay(u) = date_key /\ ~raw_rows[u]}
      ref_uuids == CHOOSE s \in [1..Cardinality(uuids) -> uuids] :
                     \A i, j \in 1..Cardinality(uuids) : i < j => s[i][3] < s[j][3]
  IN  [index_id |-> index_id, summary |-> <<"summary", index_id>>, ref_uuids |-> ref_uuids,
       prev_index_id |-> prev_index_id, source_type |-> "private", user_id |-> user_id,
       created_at |-> date_key, active_score |-> 100]

\* _summarize_private_chat(user_id) without storage failures: the unarchived
\* messages with session_id = user_id are grouped by day, the LLM yields a
\* summary for the days in summarized, and those days are archived
ArchiveOwnerWithin(user_id, summarized, max_ops) ==
  LET days == {RawDay(u) : u \in {u \in DOMAIN raw_rows : RawOwner(u) = user_id /\ ~raw_rows[u]}}
      order == SortedDays(summarized)
      last == get_memory_list(user_id, 1)
      first_prev == IF Len(last) = 0 THEN Null ELSE last[1].index_id
      new_id(k) == 100 + (10 * dOps) + order[k]
      rows == {ArchivedRow(user_id, order[k],
                           IF k = 1 THEN first_prev ELSE new_id(k - 1), new_id(k)) :
                 k \in 1..Len(order)}
  IN  /\ summarized \subseteq days
      /\ OwnerOpWithin("archive", user_id, TRUE, max_ops)
      /\ mem_rows' = mem_rows \cup rows
      /\ vec_entries' = vec_entries \cup {EntryOf(r) : r \in rows}
      /\ raw_rows' = [uuid \in DOMAIN raw_rows |->
                        raw_rows[uuid] \/ (RawOwner(uuid) = user_id /\ RawDay(uuid) \in summarized)]

ArchiveOwner(user_id, summarized) == ArchiveOwnerWithin(user_id, summarized, MaxOwnerOps)

\* retrieve_memories(user_id, ...): collection.query(where={"user_id":
\* user_id}) returns ids, and update_active_score(index_id, bonus) runs for
\* each returned summary
RetrieveOwner(user_id, ids) ==
  /\ ids \subseteq {v.id : v \in {v \in vec_entries : v.metadata.user_id = user_id}}
  /\ OwnerOp("retrieve", user_id, TRUE)
  /\ mem_rows' = {IF r.index_id \in ids
                  THEN [r EXCEPT !.active_score = @ + memory_reinforce_bonus] ELSE r :
                    r \in mem_rows}
  /\ UNCHANGED <<vec_entries, raw_rows>>

(***************************************************************************)
(* The periodic and batch jobs and the shutdown flags                      *)
(***************************************************************************)
MaxUsers == 2

\* the owners of last_chat_time / get_all_user_ids, in iteration order
Users == 1..MaxUsers

Jobs == {"check_and_summarize", "summarize_all_users", "daily_persona", "weekly_folding",
         "monthly_folding"}

\* a job that is not running
NoJob == [pc |-> "idle", todo |-> {}]

\* no call of update_interaction_stats or update_persona_daily has begun
MaxStatCallers == 2
StatCallers == 1..MaxStatCallers
NoTasks ==
  [stats |-> [c \in StatCallers |-> [pc |-> "idle", total_valid_chats |-> 0]],
   persona |-> [pc |-> "idle"],
   overlapped |-> FALSE]

\* the timed archival at rest: nobody has chatted
NoPass == [pc |-> "idle", todo |-> {}, due |-> {}, user |-> 0]
NoPassYet == [outcome |-> "none", unvisited |-> {}, eligible_left |-> {}, cleaned |-> FALSE]
TimedIdle ==
  [last_chat_time |-> [u \in Users |-> "absent"],
   unsaved_msg_count |-> [u \in Users |-> 0],
   raw |-> [u \in Users |-> [new |-> 0, batched |-> 0, archived |-> 0]],
   in_flight |-> [u \in Users |-> "none"],
   pass |-> NoPass,
   last_pass |-> NoPassYet,
   attempts |-> [u \in Users |-> "none"]]

SchedulerIdle ==
  /\ scheduler_is_shutdown = FALSE
  /\ logic_is_shutdown = FALSE
  /\ executor_shutdown = FALSE
  /\ jobs = [j \in Jobs |-> NoJob]
  /\ units = {}
  /\ last_chat_time = <<>>
  /\ timed = TimedIdle
  /\ tasks = NoTasks

\* some shutdown flag is set
ShutdownSet == scheduler_is_shutdown \/ logic_is_shutdown \/ executor_shutdown

\* the check the scheduler makes after its sleep and before each unit:
\* self._is_shutdown, self.logic._is_shutdown, self.logic.executor._shutdown
scheduler_check == scheduler_is_shutdown \/ logic_is_shutdown \/ executor_shutdown

\* the check of summarize_all_users: self._is_shutdown, self.executor._shutdown
manager_check == logic_is_shutdown \/ executor_shutdown

\* a unit of work of job j for user u begins; with the executor shut down its
\* first run_in_executor raises
UnitStarted(j, u) == [job |-> j, user |-> u, after_shutdown |-> ShutdownSet]

\* MemoryScheduler.shutdown()
SchedulerShutdown ==
  /\ ~scheduler_is_shutdown
  /\ scheduler_is_shutdown' = TRUE
  /\ UNCHANGED <<logic_is_shutdown, executor_shutdown, jobs, units>>
  /\ UNCHANGED <<last_chat_time, timed, tasks, gvars, rvars, avars, cvars, dvars, pvars>>

\* MemoryFacade.shutdown(): the flags of the facade and of the memory
\* manager, then executor.shutdown(wait=False)
LogicShutdown ==
  /\ ~logic_is_shutdown
  /\ logic_is_shutdown' = TRUE
  /\ executor_shutdown' = TRUE
  /\ UNCHANGED <<scheduler_is_shutdown, jobs, units>>
  /\ UNCHANGED <<last_chat_time, timed, tasks, gvars, rvars, avars, cvars, dvars, pvars>>

\* a scheduler loop wakes from its sleep: it leaves when a flag is set (and
\* sets its own flag when the executor is shut down), else it starts job j
\* over the users
Wake(j) ==
  /\ j \in Jobs \ {"summarize_all_users"}
  /\ jobs[j].pc = "idle"
  /\ IF scheduler_is_shutdown \/ logic_is_shutdown
     THEN /\ jobs' = [jobs EXCEPT ![j].pc = "stopped"]
          /\ UNCHANGED scheduler_is_shutdown
     ELSE IF executor_shutdown
     THEN /\ jobs' = [jobs EXCEPT ![j].pc = "stopped"]
          /\ scheduler_is_shutdown' = TRUE
     ELSE /\ jobs' = [jobs EXCEPT ![j] = [pc |-> "running", todo |-> Users]]
          /\ UNCHANGED scheduler_is_shutdown
  /\ UNCHANGED <<logic_is_shutdown, executor_shutdown, units>>
  /\ UNCHANGED <<last_chat_time, timed, tasks, gvars, rvars, avars, cvars, dvars, pvars>>

\* the end of a job whose users are all handled
Finish(j, r) == IF r.todo = {} THEN [r EXCEPT !.pc = "done"] ELSE r

\* check_and_summarize with a shutdown check before each user
CheckAndSummarizeUnit_checked(due) ==
  LET j == "check_and_summarize"
      u == CHOOSE u \in jobs[j].todo : \A v \in jobs[j].todo : u <= v
  IN  /\ jobs[j].pc = "running"
      /\ IF manager_check
         THEN /\ jobs' = [jobs EXCEPT ![j].pc = "stopped"]
              /\ UNCHANGED units
         ELSE /\ units' = IF due THEN units \cup {UnitStarted(j, u)} ELSE units
              /\ jobs' = [jobs EXCEPT ![j] = Finish(j, [@ EXCEPT !.todo = @ \ {u}])]
      /\ UNCHANGED <<scheduler_is_shutdown, logic_is_shutdown, executor_shutdown>>
      /\ UNCHANGED <<last_chat_time, timed, tasks, gvars, rvars, avars, cvars, dvars, pvars>>

\* one iteration of the loop of check_and_summarize: when the user is due
\* (idle longer than the timeout with enough unsaved messages)
\* _summarize_private_chat is awaited; its failure ends the job
CheckAndSummarizeUnit(due) ==
  LET j == "check_and_summarize"
      u == CHOOSE u \in jobs[j].todo : \A v \in jobs[j].todo : u <= v
  IN  /\ jobs[j].pc = "running"
      /\ units' = IF due THEN units \cup {UnitStarted(j, u)} ELSE units
      /\ jobs' = IF due /\ executor_shutdown
                 THEN [jobs EXCEPT ![j].pc = "raised"]
                 ELSE [jobs EXCEPT ![j] = Finish(j, [@ EXCEPT !.todo = @ \ {u}])]
      /\ UNCHANGED <<scheduler_is_shutdown, logic_is_shutdown, executor_shutdown>>
      /\ UNCHANGED <<last_chat_time, timed, tasks, gvars, rvars, avars, cvars, dvars, pvars>>

\* summarize_all_users is called (a command): the user ids are read
StartSummarizeAll ==
  LET j == "summarize_all_users"
  IN  /\ jobs[j].pc = "idle"
      /\ jobs' = IF executor_shutdown
                 THEN [jobs EXCEPT ![j].pc = "raised"]
                 ELSE [jobs EXCEPT ![j] = [pc |-> "running", todo |-> Users]]
      /\ UNCHANGED <<scheduler_is_shutdown, logic_is_shutdown, executor_shutdown, units>>
      /\ UNCHANGED <<last_chat_time, timed, tasks, gvars, rvars, avars, cvars, dvars, pvars>>

\* one iteration of the loop of summarize_all_users
SummarizeAllUnit ==
  LET j == "summarize_all_users"
      u == CHOOSE u \in jobs[j].todo : \A v \in jobs[j].todo : u <= v
  IN  /\ jobs[j].pc = "running"
      /\ IF manager_check
         THEN /\ jobs' = [jobs EXCEPT ![j].pc = "stopped"]
              /\ UNCHANGED units
         ELSE /\ units' = units \cup {UnitStarted(j, u)}
              /\ jobs' = [jobs EXCEPT ![j] = Finish(j, [@ EXCEPT !.todo = @ \ {u}])]
      /\ UNCHANGED <<scheduler_is_shutdown, logic_is_shutdown, executor_shutdown>>
      /\ UNCHANGED <<last_chat_time, timed, tasks, gvars, rvars, avars, cvars, dvars, pvars>>

\* update_user_persona(u) of _execute_daily_persona_update: the tasks of
\* all users are gathered, each checks the flags inside the semaphore
DailyPersonaUnit(u) ==
  LET j == "daily_persona"
  IN  /\ jobs[j].pc = "running"
      /\ u \in jobs[j].todo
      /\ units' = IF scheduler_check THEN units ELSE units \cup {UnitStarted(j, u)}
      /\ jobs' = [jobs EXCEPT ![j] = Finish(j, [@ EXCEPT !.todo = @ \ {u}])]
      /\ UNCHANGED <<scheduler_is_shutdown, logic_is_shutdown, executor_shutdown>>
      /\ UNCHANGED <<last_chat_time, timed, tasks, gvars, rvars, avars, cvars, dvars, pvars>>

\* one iteration of the loop of _execute_weekly_folding or
\* _execute_monthly_folding
FoldingUnit(j) ==
  LET u == CHOOSE u \in jobs[j].todo : \A v \in jobs[j].todo : u <= v
  IN  /\ j \in {"weekly_folding", "monthly_folding"}
      /\ jobs[j].pc = "running"
      /\ IF scheduler_check
         THEN /\ jobs' = [jobs EXCEPT ![j].pc = "stopped"]
              /\ UNCHANGED units
         ELSE /\ units' = units \cup {UnitStarted(j, u)}
              /\ jobs' = [jobs EXCEPT ![j] = Finish(j, [@ EXCEPT !.todo = @ \ {u}])]
      /\ UNCHANGED <<scheduler_is_shutdown, logic_is_shutdown, executor_shutdown>>
      /\ UNCHANGED <<last_chat_time, timed, tasks, gvars, rvars, avars, cvars, dvars, pvars>>

\* ---- one run of _execute_weekly_folding ----
\* the job record of a run: the locals, and the folds begun and ended
FoldingRun(enabled, user_ids) ==
  [pc |-> "jitter", todo |-> {}, enabled |-> enabled, user_ids |-> user_ids, pos |-> 1,
   cache_at_start |-> user_ids, events |-> <<>>]

\* the sequences without repetitions over a set of users
RECURSIVE Orders(_)
Orders(S) ==
  IF S = {} THEN {<<>>}
  ELSE UNION {{<<u>> \o s : s \in Orders(S \ {u})} : u \in S}
Caches == UNION {Orders(S) : S \in SUBSET Users}

\* record_message(role="user"): last_chat_time[user_id] is set
RecordChat(u) ==
  /\ \A i \in 1..Len(last_chat_time) : last_chat_time[i] # u
  /\ last_chat_time' = Append(last_chat_time, u)
  /\ UNCHANGED <<scheduler_is_shutdown, logic_is_shutdown, executor_shutdown, jobs, units>>
  /\ UNCHANGED <<timed, tasks, gvars, rvars, avars, cvars, dvars, pvars>>

\* _cleanup_inactive_users pops an inactive user
CleanupInactive(u) ==
  /\ \E i \in 1..Len(last_chat_time) : last_chat_time[i] = u
  /\ last_chat_time' = SelectSeq(last_chat_time, LAMBDA v : v # u)
  /\ UNCHANGED <<scheduler_is_shutdown, logic_is_shutdown, executor_shutdown, jobs, units>>
  /\ UNCHANGED <<timed, tasks, gvars, rvars, avars, cvars, dvars, pvars>>

\* _execute_weekly_folding up to the jitter sleep: it returns when folding is
\* disabled or the cache is empty, else it copies the keys of the cache
StartWeeklyFolding(enabled) ==
  LET j == "weekly_folding"
  IN  /\ jobs[j].pc = "idle"
      /\ jobs' = [jobs EXCEPT ![j] =
                    IF ~enabled \/ last_chat_time = <<>>
                    THEN [FoldingRun(enabled, <<>>) EXCEPT
                            !.pc = "returned", !.cache_at_start = last_chat_time]
                    ELSE FoldingRun(enabled, last_chat_time)]
      /\ UNCHANGED <<scheduler_is_shutdown, logic_is_shutdown, executor_shutdown, units,
                     last_chat_time>>
      /\ UNCHANGED <<timed, tasks, gvars, rvars, avars, cvars, dvars, pvars>>

\* the jitter sleep, or the sleep of 5 seconds after a fold, ends
FoldingSleepDoneOf(j) ==
  LET r == jobs[j]
  IN  /\ jobs[j].pc \in {"jitter", "sleep"}
      /\ jobs' = [jobs EXCEPT ![j].pc =
                    IF jobs[j].pos > Len(jobs[j].user_ids) THEN "done" ELSE "loop"]
      /\ UNCHANGED <<scheduler_is_shutdown, logic_is_shutdown, executor_shutdown, units,
                     last_chat_time>>
      /\ UNCHANGED <<timed, tasks, gvars, rvars, avars, cvars, dvars, pvars>>

FoldingSleepDone == FoldingSleepDoneOf("weekly_folding")

\* the head of the loop: the run returns when a flag is set, else it awaits
\* the fold of the next user
FoldBeginOf(j) ==
  LET r == jobs[j]
  IN  /\ r.pc = "loop"
      /\ jobs' = [jobs EXCEPT ![j] =
                    IF scheduler_check THEN [r EXCEPT !.pc = "returned"]
                    ELSE [r EXCEPT !.pc = "folding",
                                   !.events = Append(@, <<"begin", r.user_ids[r.pos]>>)]]
      /\ UNCHANGED <<scheduler_is_shutdown, logic_is_shutdown, executor_shutdown, units,
                     last_chat_time>>
      /\ UNCHANGED <<timed, tasks, gvars, rvars, avars, cvars, dvars, pvars>>

\* the head of the loop of _execute_weekly_folding, which awaits
\* fold_weekly_summaries
FoldBegin == FoldBeginOf("weekly_folding")

\* an exception of a fold that leaves the run
after_fold_propagating(r, outcome) ==
  IF outcome = "exception" THEN [r EXCEPT !.pc = "raised"]
  ELSE [r EXCEPT !.pc = "sleep", !.pos = @ + 1]

\* the fold returned or raised: an Exception is logged, and the run sleeps
\* before the next user
after_fold(r, outcome) == [r EXCEPT !.pc = "sleep", !.pos = @ + 1]

FoldEndOf(j, outcome) ==
  LET r == jobs[j]
  IN  /\ r.pc = "folding"
      /\ jobs' = [jobs EXCEPT ![j] =
                    after_fold([r EXCEPT !.events = Append(@, <<outcome, r.user_ids[r.pos]>>)],
                               outcome)]
      /\ UNCHANGED <<scheduler_is_shutdown, logic_is_shutdown, executor_shutdown, units,
                     last_chat_time>>
      /\ UNCHANGED <<timed, tasks, gvars, rvars, avars, cvars, dvars, pvars>>

FoldEnd(outcome) == FoldEndOf("weekly_folding", outcome)

\* _execute_monthly_folding up to the jitter sleep: it returns when the cache
\* is empty, else it copies the keys of the cache; enabled is the value of
\* enable_memory_folding during the run, which the function does not read
StartMonthlyFolding(enabled) ==
  LET j == "monthly_folding"
  IN  /\ jobs[j].pc = "idle"
      /\ jobs' = [jobs EXCEPT ![j] =
                    IF last_chat_time = <<>>
                    THEN [FoldingRun(enabled, <<>>) EXCEPT
                            !.pc = "returned", !.cache_at_start = last_chat_time]
                    ELSE FoldingRun(enabled, last_chat_time)]
      /\ UNCHANGED <<scheduler_is_shutdown, logic_is_shutdown, executor_shutdown, units,
                     last_chat_time>>
      /\ UNCHANGED <<timed, tasks, gvars, rvars, avars, cvars, dvars, pvars>>

\* the sleeps of _execute_monthly_folding, the head of its loop, which
\* awaits fold_monthly_summaries, and the end of that fold
MonthlySleepDone == FoldingSleepDoneOf("monthly_folding")
MonthlyFoldBegin == FoldBeginOf("monthly_folding")
MonthlyFoldEnd(outcome) == FoldEndOf("monthly_folding", outcome)
\* ---- _check_item_conflict ----
\* items of the profile and of the LLM:
\* U+559C U+6B22 U+732B, U+8BA8 U+538C U+732B, U+732B U+6BDB U+8FC7 U+654F,
\* U+5BF9 U+82B1 U+751F U+8FC7 U+654F, U+559C U+6B22 U+82B1 U+751F, U+82B1 U+751F,
\* U+6D77 U+9C9C U+8FC7 U+654F, U+7231 U+5403 U+6D77 U+9C9C, U+897F U+74DC
ConflictItems ==
  { <<"xi", "huan", "mao">>, <<"tao", "yan", "mao">>, <<"mao", "mao_hair", "guo", "min">>,
    <<"dui", "hua", "sheng", "guo", "min">>, <<"xi", "huan", "hua", "sheng">>,
    <<"hua", "sheng">>, <<"hai_sea", "xian_fresh", "guo", "min">>,
    <<"ai", "chi", "hai_sea", "xian_fresh">>, <<"xi_west", "gua">> }

\* _check_item_conflict is called with (old_item, new_item) and with the two
\* items exchanged
CheckItemConflict ==
  /\ call_args.fn = "_check_item_conflict"
  /\ ~call_result.done
  /\ call_result' = Returned([as_given |-> _check_item_conflict(call_args.old_item,
                                                               call_args.new_item),
                              exchanged |-> _check_item_conflict(call_args.new_item,
                                                                 call_args.old_item)])
  /\ UNCHANGED <<call_args, gvars, rvars, avars, cvars, dvars, svars>>


(***************************************************************************)
(* The timed archival: MemoryManager.record_message, check_and_summarize   *)
(* and _cleanup_inactive_users. The variable timed holds                   *)
(*   last_chat_time[u]    absent, or how long ago the user chatted:        *)
(*                        recent, timed_out (longer than                   *)
(*                        private_memory_timeout), inactive (longer than   *)
(*                        _inactive_threshold)                             *)
(*   unsaved_msg_count[u] the counter (0 when the key is absent)           *)
(*   raw[u]               the counted messages of the user: new (never     *)
(*                        read by an archival), batched (read by an        *)
(*                        archival, not archived), archived                *)
(*   in_flight[u]         the message of a record_message call between     *)
(*                        save_raw_memory and the update of the counters   *)
(*   pass                 the running check_and_summarize                  *)
(*   last_pass, attempts  how the last pass and the last archival of each  *)
(*                        user ended                                       *)
(***************************************************************************)
MaxMessages == 3

\* the option min_msg_count
min_msg_count == 2

Recorded(u) ==
  timed.raw[u].new + timed.raw[u].batched + timed.raw[u].archived
  + (IF timed.in_flight[u] = "none" THEN 0 ELSE 1)

\* the messages of a user that an archival has read and not archived
Batched(u) == timed.raw[u].batched + (IF timed.in_flight[u] = "batched" THEN 1 ELSE 0)

TimedOnly ==
  /\ UNCHANGED <<scheduler_is_shutdown, logic_is_shutdown, executor_shutdown, jobs, units,
                 last_chat_time, tasks>>
  /\ UNCHANGED <<gvars, rvars, avars, cvars, dvars, pvars>>

\* record_message(role="user") up to the end of save_raw_memory
RecordSave(u) ==
  /\ timed.in_flight[u] = "none"
  /\ Recorded(u) < MaxMessages
  /\ timed' = [timed EXCEPT !.in_flight[u] = "saved"]
  /\ TimedOnly

\* record_message after the await: last_chat_time and unsaved_msg_count
RecordCount(u) ==
  /\ timed.in_flight[u] # "none"
  /\ timed' = [timed EXCEPT
       !.in_flight[u] = "none",
       !.raw[u] = IF timed.in_flight[u] = "saved" THEN [@ EXCEPT !.new = @ + 1]
                  ELSE IF timed.in_flight[u] = "batched" THEN [@ EXCEPT !.batched = @ + 1]
                  ELSE [@ EXCEPT !.archived = @ + 1],
       !.last_chat_time[u] = "recent",
       !.unsaved_msg_count[u] = @ + 1]
  /\ TimedOnly

\* time passes: the last chat of a user gets older than the timeout, then
\* older than the threshold of inactivity
TimePasses(u) ==
  /\ timed.last_chat_time[u] \in {"recent", "timed_out"}
  /\ timed' = [timed EXCEPT !.last_chat_time[u] =
                  IF @ = "recent" THEN "timed_out" ELSE "inactive"]
  /\ TimedOnly

\* check_and_summarize begins: now_ts is read and the items of
\* last_chat_time are copied
PassStart ==
  /\ timed.pass.pc = "idle"
  /\ timed' = [timed EXCEPT !.pass =
       [pc |-> "loop",
        todo |-> {u \in Users : timed.last_chat_time[u] # "absent"},
        due |-> {u \in Users : timed.last_chat_time[u] \in {"timed_out", "inactive"}},
        user |-> 0]]
  /\ TimedOnly

\* the condition of the loop for a user of the copy
Eligible(u) == u \in timed.pass.due /\ timed.unsaved_msg_count[u] >= min_msg_count

\* the next user of the loop: when the user is eligible
\* _summarize_private_chat is awaited and reads the unarchived messages
PassNext ==
  LET u == CHOOSE u \in timed.pass.todo : \A v \in timed.pass.todo : u <= v
  IN  /\ timed.pass.pc = "loop"
      /\ timed.pass.todo # {}
      /\ timed' =
           IF Eligible(u)
           THEN [timed EXCEPT
                   !.pass = [@ EXCEPT !.pc = "archiving", !.user = u, !.todo = @ \ {u}],
                   !.raw[u] = [@ EXCEPT !.new = 0, !.batched = @ + timed.raw[u].new],
                   !.in_flight[u] = IF @ = "saved" THEN "batched" ELSE @,
                   !.attempts[u] = "running"]
           ELSE [timed EXCEPT !.pass.todo = @ \ {u}]
      /\ TimedOnly

\* _cleanup_inactive_users
cleaned_last_chat_time ==
  [u \in Users |->
     IF timed.last_chat_time[u] = "inactive" /\ timed.unsaved_msg_count[u] = 0
     THEN "absent" ELSE timed.last_chat_time[u]]

\* the loop is over: the inactive users are cleaned and the pass returns
PassEnd ==
  /\ timed.pass.pc = "loop"
  /\ timed.pass.todo = {}
  /\ timed' = [timed EXCEPT
       !.last_chat_time = cleaned_last_chat_time,
       !.pass = NoPass,
       !.last_pass = [outcome |-> "completed", unvisited |-> {}, eligible_left |-> {},
                      cleaned |-> TRUE]]
  /\ TimedOnly

\* the counter after _summarize_private_chat returned
unsaved_after_archival(count) == 0

\* an exception of _summarize_private_chat leaves check_and_summarize
archival_raised(u) ==
  [timed EXCEPT
     !.pass = NoPass,
     !.last_pass = [outcome |-> "raised", unvisited |-> timed.pass.todo,
                    eligible_left |-> {v \in timed.pass.todo : Eligible(v)},
                    cleaned |-> FALSE],
     !.attempts[u] = "raised"]

\* _summarize_private_chat of the user of the pass ends: ok (the batch is
\* summarized, stored and marked archived), llm_failed (no summary after all
\* attempts, or the vector write gave up: it returns and nothing is
\* archived), raised (get_unarchived_raw, save_memory_index or
\* mark_as_archived raised)
ArchiveEnd(outcome) ==
  LET u == timed.pass.user
  IN  /\ timed.pass.pc = "archiving"
      /\ outcome = "llm_failed" => Batched(u) > 0
      /\ timed' =
           IF outcome = "raised" THEN archival_raised(u)
           ELSE IF outcome = "llm_failed"
           THEN [timed EXCEPT
                   !.pass.pc = "loop", !.pass.user = 0,
                   !.unsaved_msg_count[u] = unsaved_after_archival(@),
                   !.attempts[u] = "llm_failed"]
           ELSE [timed EXCEPT
                   !.pass.pc = "loop", !.pass.user = 0,
                   !.raw[u] = [@ EXCEPT !.batched = 0,
                                        !.archived = @ + timed.raw[u].batched],
                   !.in_flight[u] = IF @ = "batched" THEN "archived" ELSE @,
                   !.unsaved_msg_count[u] = unsaved_after_archival(@),
                   !.attempts[u] = "ok"]
      /\ TimedOnly
(***************************************************************************)
(* ProfileManager: the stored profile and the daily update cycle           *)
(***************************************************************************)
\* bounds of the model
MaxCycles == 3
MaxThreshold == 3
MaxBasicCycles == 1
MaxPrefCycles == 2

Stats(n) == [kind |-> "stats", total_valid_chats |-> n]
EmptyStats == [kind |-> "empty", total_valid_chats |-> 0]
\* no interaction_stats key in social_graph
MissingStats == [kind |-> "missing", total_valid_chats |-> 0]

\* the profile get_user_profile returns when no file exists
DefaultProfile(user_id) ==
  [basic_info |->
     [f \in BasicFields |->
        CASE f = "qq_id" -> user_id
          [] f = "avatar_url" -> ""
          [] f = "signature" -> "no_signature_yet"
          [] OTHER -> Sentinel],
   attributes |-> [c \in categories |-> {}],
   pending_proposals |-> {},
   preferences |-> [c \in pref_categories |-> {}],
   social_graph |-> [relationship_status |-> "stranger", interaction_stats |-> Stats(0)],
   dev_metadata |-> "dev0",
   shared_secrets |-> FALSE]

\* a profile whose basic_info was filled in by the platform sync and the user
PopulatedProfile(user_id) ==
  [DefaultProfile(user_id) EXCEPT
     !.basic_info = [f \in BasicFields |->
                       CASE f = "qq_id" -> user_id
                         [] f = "nickname" -> "Alice"
                         [] f = "gender" -> "nan"
                         [] f = "age" -> "25"
                         [] f = "location" -> "Beijing"
                         [] f = "job" -> "student"
                         [] f = "avatar_url" -> "http://q1.qlogo.cn/U1"
                         [] f = "signature" -> "hello"
                         [] f = "birthday" -> "2000-1-1"
                         [] f = "constellation" -> "Capricorn"
                         [] f = "zodiac" -> "Dragon"]]

\* a profile that holds a proposal made under an earlier configuration
PendingProfile(user_id) ==
  [DefaultProfile(user_id) EXCEPT
     !.pending_proposals = {[category |-> "hobbies", value |-> "tiaosan", confidence |-> 1,
                             first_seen |-> 0, last_seen |-> 0]}]

\* a profile whose likes were merged while conflict detection was switched off
\* (update_user_profile and a disabled guardian both keep every item)
LegacyProfile(user_id) ==
  [DefaultProfile(user_id) EXCEPT
     !.preferences = [c \in pref_categories |->
                        IF c = "likes" THEN {ItemOrder[1], ItemOrder[2]} ELSE {}]]

\* what the LLM returns when it repeats the persona it was shown
Echo(current) ==
  [basic_info |-> current.basic_info,
   attributes |-> current.attributes,
   preferences |-> current.preferences,
   social_graph |-> current.social_graph,
   dev_metadata |-> None,
   shared_secrets |-> None]

AttrValues == {"tiaosan", "biancheng"}
AttrKeys == categories \X AttrValues

\* LLM proposals that touch the attribute lists of one category
AttrInputs(current) ==
  {[Echo(current) EXCEPT !.attributes = a] :
     a \in {b \in [categories -> SUBSET AttrValues] :
              \E c \in categories : \A d \in categories \ {c} : b[d] = {}}}

\* one update cycle of update_persona_daily: validate the LLM's persona
\* against the stored one and write the validated persona back
UpdateCycle(new_persona, memory_texts, max_cycles) ==
  /\ cycle < max_cycles
  /\ LET r == validate_update(profile, new_persona, memory_texts, cycle + 1, iterOrder)
     IN  /\ profile' = r.validated
         /\ conflicts' = r.conflicts
  /\ lastOld' = profile
  /\ lastNew' = new_persona
  /\ lastText' = memory_texts
  /\ cycle' = cycle + 1
  /\ proposed' = [k \in AttrKeys |->
                    IF k[2] \in new_persona.attributes[k[1]]
                       /\ k[2] \notin profile.attributes[k[1]]
                    THEN proposed[k] + 1 ELSE proposed[k]]
  /\ UNCHANGED <<config, iterOrder, rvars, avars, cvars, dvars, svars, pvars>>

GuardianInit(configs, profiles, orders) ==
  /\ config \in configs
  /\ iterOrder \in orders
  /\ profile \in profiles
  /\ lastOld \in profiles /\ lastOld = profile
  /\ lastNew = Echo(profile)
  /\ lastText = <<>>
  /\ conflicts = {}
  /\ cycle = 0
  /\ proposed = [k \in AttrKeys |->
                   IF \E p \in profile.pending_proposals : <<p.category, p.value>> = k
                   THEN (CHOOSE p \in profile.pending_proposals :
                           <<p.category, p.value>> = k).confidence
                   ELSE 0]

Configs(confidence, thresholds, conflict, evidence) ==
  [enable_confidence : confidence, confidence_threshold : thresholds,
   enable_conflict_detection : conflict, enable_strong_evidence : evidence]

Reverse(s) == [k \in 1..Len(s) |-> s[Len(s) + 1 - k]]
\* iteration orders of a Python set of items
IterOrders == {ItemOrder, Reverse(ItemOrder)}

\* the lists the LLM proposes for a category: none, one or two items
NewItemLists == {{a, b} : a, b \in Items} \cup {{}}

\* LLM proposals that replace the list of one preference category
PrefInputs(current) ==
  {[Echo(current) EXCEPT !.preferences[c] = S] :
     c \in {"likes", "dislikes"}, S \in NewItemLists}

\* supporting texts (memory_texts):
\*   "", U+6211 U+662F U+7537 U+670B U+53CB, U+6211 U+662F U+5973 U+751F,
\*   "- " U+6211 "25" U+5C81 "\n- " U+6211 U+662F U+5B66 U+751F,
\*   U+4F4F U+5728 U+5317 U+4EAC U+5E02
Texts ==
  { <<>>,
    <<"wo", "shi", "nan", "peng", "you">>,
    <<"wo", "shi", "nv", "sheng">>,
    <<"-", " ", "wo", "2", "5", "sui", "\n", "-", " ", "wo", "shi", "xue", "sheng">>,
    <<"zhu", "zai", "bei", "jing_capital", "shi_city">> }

BasicValues == {None, Sentinel, "Bob", "nv"}

\* LLM proposals that change (or omit) one basic_info field
BasicInputs(current) ==
  {[Echo(current) EXCEPT !.basic_info[f] = v] : f \in BasicFields, v \in BasicValues}

\* ---- update cycles in which the LLM proposes attributes ----
InitConfidence ==
  /\ RetrieveIdle
  /\ ArchiveIdle
  /\ ChromaIdle
  /\ UndoIdle
  /\ SchedulerIdle
  /\ PureIdle
  /\ GuardianInit(Configs(BOOLEAN, 1..MaxThreshold, {TRUE}, {TRUE}), {DefaultProfile("U1"), PendingProfile("U1")}, {ItemOrder})
NextConfidence == \E new \in AttrInputs(profile) : UpdateCycle(new, <<>>, MaxCycles)
SpecConfidence == InitConfidence /\ [][NextConfidence]_vars

\* ---- update cycles in which the LLM proposes basic_info changes ----
InitBasic ==
  /\ RetrieveIdle
  /\ ArchiveIdle
  /\ ChromaIdle
  /\ UndoIdle
  /\ SchedulerIdle
  /\ PureIdle
  /\ GuardianInit(Configs({TRUE}, {2}, {TRUE}, BOOLEAN),
                  {DefaultProfile("U1"), PopulatedProfile("U1")}, {ItemOrder})
NextBasic ==
  \E new \in BasicInputs(profile), text \in Texts : UpdateCycle(new, text, MaxBasicCycles)
SpecBasic == InitBasic /\ [][NextBasic]_vars

\* ---- update cycles in which the LLM proposes preference items ----
InitPrefs ==
  /\ RetrieveIdle
  /\ ArchiveIdle
  /\ ChromaIdle
  /\ UndoIdle
  /\ SchedulerIdle
  /\ PureIdle
  /\ GuardianInit(Configs({TRUE}, {2}, BOOLEAN, {TRUE}),
                  {DefaultProfile("U1"), LegacyProfile("U1")}, IterOrders)
NextPrefs == \E new \in PrefInputs(profile) : UpdateCycle(new, <<>>, MaxPrefCycles)
SpecPrefs == InitPrefs /\ [][NextPrefs]_vars


\* ---- update cycles in which the LLM proposes a social_graph ----
MaxStatCycles == 3

\* stored profiles whose interaction_stats is filled, empty or missing
StatsProfiles ==
  {[DefaultProfile("U1") EXCEPT !.social_graph.interaction_stats = s] :
     s \in {Stats(3), EmptyStats, MissingStats}}

\* LLM proposals that carry a social_graph of their own
StatsInputs(current) ==
  {[Echo(current) EXCEPT !.social_graph = [relationship_status |-> status,
                                            interaction_stats |-> s]] :
     status \in {"stranger", "friend"}, s \in {Stats(3), Stats(999), EmptyStats, MissingStats}}

InitStats ==
  /\ RetrieveIdle
  /\ ArchiveIdle
  /\ ChromaIdle
  /\ UndoIdle
  /\ SchedulerIdle
  /\ PureIdle
  /\ GuardianInit(Configs({TRUE}, {2}, {TRUE}, {TRUE}), StatsProfiles, {ItemOrder})
NextStats == \E new \in StatsInputs(profile) : UpdateCycle(new, <<>>, MaxStatCycles)
SpecStats == InitStats /\ [][NextStats]_vars

\* ---- update_persona_daily from the completion text of the LLM ----
MaxPersonaCycles == 2

\* str.find / str.rfind of a one-character token (0-based, -1: absent)
find(content, token) ==
  IF \E i \in 1..Len(content) : content[i] = token
  THEN (CHOOSE i \in 1..Len(content) :
          content[i] = token /\ \A j \in 1..(i - 1) : content[j] # token) - 1
  ELSE 0 - 1
rfind(content, token) ==
  IF \E i \in 1..Len(content) : content[i] = token
  THEN (CHOOSE i \in 1..Len(content) :
          content[i] = token /\ \A j \in (i + 1)..Len(content) : content[j] # token) - 1
  ELSE 0 - 1

\* content[lo:hi] for lo, hi >= 0
Slice(content, lo, hi) ==
  IF lo < hi /\ lo < Len(content) THEN SubSeq(content, lo + 1, Min(hi, Len(content))) ELSE <<>>

\* content.split(sep)[0] and content.split(sep)[1] for the fence tokens; the
\* opening fence (three backquotes and json) begins with the closing fence
IsFence(token, sep) == token = sep \/ (sep = "fence" /\ token = "fence_json")
BeforeFence(content, sep) ==
  IF \E i \in 1..Len(content) : IsFence(content[i], sep)
  THEN SubSeq(content, 1, (CHOOSE i \in 1..Len(content) :
                             /\ IsFence(content[i], sep)
                             /\ \A j \in 1..(i - 1) : ~IsFence(content[j], sep)) - 1)
  ELSE content
AfterFence(content, sep) ==
  LET i == CHOOSE i \in 1..Len(content) :
             IsFence(content[i], sep) /\ \A j \in 1..(i - 1) : ~IsFence(content[j], sep)
  IN  BeforeFence(SubSeq(content, i + 1, Len(content)), sep)

\* the text handed to json.loads
FencedBlock(content) == strip(BeforeFence(AfterFence(content, "fence_json"), "fence"))
Bracketed(content) == Slice(content, find(content, "{"), rfind(content, "}") + 1)
Extracted(content) ==
  IF \E i \in 1..Len(content) : content[i] = "fence_json" THEN FencedBlock(content)
  ELSE IF \E i \in 1..Len(content) : content[i] = "{" THEN Bracketed(content)
  ELSE content

\* json.loads: the kind of the value, or "error" (JSONDecodeError); the token
\* "persona" stands for the members of the proposed persona
RECURSIVE json_value(_)
json_value(text) ==
  CASE text = <<"{", "persona", "}">> -> "object"
    [] text = <<"{", "}">> -> "empty_object"
    [] text = <<"1">> -> "number"
    [] text = <<"null">> -> "null"
    [] text = <<"[", "]">> -> "array"
    [] Len(text) > 2 /\ text[1] = "[" /\ text[Len(text)] = "]" ->
         IF json_value(strip(SubSeq(text, 2, Len(text) - 1))) = "error" THEN "error" ELSE "array"
    [] OTHER -> "error"
\* a decoder that stops after the first value (JSONDecoder.raw_decode)
json_loads_first_value(content) ==
  IF \E n \in 1..Len(strip(content)) : json_value(SubSeq(strip(content), 1, n)) # "error"
  THEN json_value(SubSeq(strip(content), 1,
                         CHOOSE n \in 1..Len(strip(content)) :
                           /\ json_value(SubSeq(strip(content), 1, n)) # "error"
                           /\ \A m \in 1..(n - 1) :
                                json_value(SubSeq(strip(content), 1, m)) = "error"))
  ELSE "error"
json_loads(content) == json_value(strip(content))

\* completion texts of the LLM
LlmContents ==
  { <<"{", "persona", "}">>,
    <<"text", "{", "persona", "}", "text">>,
    <<"fence_json", " ", "{", "persona", "}", " ", "fence">>,
    <<"text", "fence_json", "{", "persona", "}", "fence", "text">>,
    <<"fence_json", "{", "persona", "}">>,
    <<"[", "{", "persona", "}", "]">>,
    <<>>,
    <<"text">>,
    <<"{", "persona">>,
    <<"}", "{">>,
    <<"text", "{", "persona", "}", "}">>,
    <<"{", "persona", "}", "text", "}">>,
    <<"[", "1", "]">>,
    <<"1">>,
    <<"null">>,
    <<"fence_json", "text", "fence">>,
    <<"fence_json", " ", "[", "1", "]", " ", "fence">>,
    <<"fence_json", "text", "fence", "{", "persona", "}">> }

\* update_persona_daily once memories were found and a provider answered
\* with content: json.loads raises on a text that is no JSON value, and
\* validate_update raises AttributeError on a value that is no object; both are
\* caught by the except clause, which logs and returns
UpdatePersonaDaily(content, new_persona, memory_texts, max_cycles) ==
  LET kind == json_loads(Extracted(content))
  IN  /\ cycle < max_cycles
      /\ kind # "empty_object"
      /\ call_args' = [fn |-> "update_persona_daily", content |-> content]
      /\ IF kind = "object"
         THEN /\ LET r == validate_update(profile, new_persona, memory_texts, cycle + 1,
                                          iterOrder)
                 IN  /\ profile' = r.validated
                     /\ conflicts' = r.conflicts
              /\ lastOld' = profile
              /\ lastNew' = new_persona
              /\ lastText' = memory_texts
              /\ cycle' = cycle + 1
              /\ proposed' = [k \in AttrKeys |->
                                IF k[2] \in new_persona.attributes[k[1]]
                                   /\ k[2] \notin profile.attributes[k[1]]
                                THEN proposed[k] + 1 ELSE proposed[k]]
              /\ call_result' = Returned([wrote |-> TRUE, raised |-> FALSE,
                                          logged |-> "none", stored_before |-> profile])
         ELSE /\ UNCHANGED <<profile, conflicts, lastOld, lastNew, lastText, cycle, proposed>>
              /\ call_result' =
                   Returned([wrote |-> FALSE, raised |-> FALSE,
                             logged |-> IF kind = "error" THEN "JSONDecodeError"
                                        ELSE "AttributeError",
                             stored_before |-> profile])
      /\ UNCHANGED <<config, iterOrder, rvars, avars, cvars, dvars, svars>>

\* the persona inside the completion text: the one shown, or one with a hobby
PersonaInputs(current) ==
  {Echo(current), [Echo(current) EXCEPT !.attributes.hobbies = {"tiaosan"}]}

InitPersona ==
  /\ RetrieveIdle
  /\ ArchiveIdle
  /\ ChromaIdle
  /\ UndoIdle
  /\ SchedulerIdle
  /\ PureIdle
  /\ GuardianInit(Configs({TRUE}, {2}, {TRUE}, {TRUE}),
                  {DefaultProfile("U1"), PendingProfile("U1")}, {ItemOrder})
NextPersona ==
  \E content \in LlmContents, new \in PersonaInputs(profile) :
     UpdatePersonaDaily(content, new, <<>>, MaxPersonaCycles)
SpecPersona == InitPersona /\ [][NextPersona]_vars

\* ---- calls of retrieve_memories ----
GuardianIdle ==
  GuardianInit(Configs({TRUE}, {2}, {TRUE}, {TRUE}), {DefaultProfile("U1")}, {ItemOrder})

InitRetrieve ==
  /\ GuardianIdle
  /\ ArchiveIdle
  /\ ChromaIdle
  /\ UndoIdle
  /\ SchedulerIdle
  /\ PureIdle
  /\ rPhase = "called"
  /\ rConfig \in RetrieveConfigs(BOOLEAN, {<<1, 2>>, <<3, 4>>}, BOOLEAN)
  /\ rQuery \in Queries
  /\ rLimit \in 1..MaxLimit
  /\ rResults \in QueryResults(rLimit)
  /\ rData = <<>>
  /\ rRanked = <<>>
  /\ rOutput = <<>>
  /\ active_score = [id \in IndexIds |-> 100]
  /\ bump_calls = [id \in IndexIds |-> 0]
  /\ rRaised = {}
NextRetrieve ==
  \/ RetrieveNothing
  \/ \E failed \in ReinforceFailures : Retrieve(failed)
SpecRetrieve == InitRetrieve /\ [][NextRetrieve]_vars

\* retrieval calls for the reinforcement step: both values of the bonus and
\* every set of failing update_active_score calls
InitReinforce ==
  /\ GuardianIdle
  /\ ArchiveIdle
  /\ ChromaIdle
  /\ UndoIdle
  /\ SchedulerIdle
  /\ PureIdle
  /\ rPhase = "called"
  /\ rConfig \in {[c EXCEPT !.memory_reinforce_bonus = b] :
                    c \in RetrieveConfigs({TRUE}, {<<1, 2>>}, {TRUE}), b \in {0, 20}}
  /\ rQuery = <<"xi_west", "gua">>
  /\ rLimit \in 1..MaxLimit
  /\ rResults \in QueryResults(rLimit)
  /\ rData = <<>>
  /\ rRanked = <<>>
  /\ rOutput = <<>>
  /\ active_score = [id \in IndexIds |-> 100]
  /\ bump_calls = [id \in IndexIds |-> 0]
  /\ rRaised = {}

NextReinforce ==
  \/ RetrieveNothing
  \/ \E failed \in SUBSET IndexIds : Retrieve(failed)

SpecReinforce == InitReinforce /\ [][NextReinforce]_vars

InitArchive ==
  /\ GuardianIdle
  /\ RetrieveIdle
  /\ ChromaIdle
  /\ UndoIdle
  /\ SchedulerIdle
  /\ PureIdle
  /\ raw_memory \in UNION {[1..k -> DayMessages] : k \in 1..MaxDays}
  /\ old_days \in 0..Len(raw_memory)
  /\ is_archived = [u \in Uuids |-> FALSE]
  /\ collection = {}
  /\ memory_index = {}
  /\ run = NoRun(0)

NextArchive ==
  \/ StartRun
  \/ ProcessGroup
  \/ \E result \in {"returned", "exception", "no_provider"}, completion_len \in CompletionLens :
       TextChat(result, completion_len)
  \/ \E ok \in BOOLEAN : MarkForced(ok)
  \/ \E ok \in BOOLEAN : CollectionAdd(ok)
  \/ \E ok \in BOOLEAN : SaveIndex(ok)
  \/ \E ok \in BOOLEAN : MarkSummarized(ok)
  \/ Cancel

SpecArchive == InitArchive /\ [][NextArchive]_vars

\* the attempt loops of the day batches of one run, with every outcome of
\* an invocation, up to the end of the loop over the batches
InitSummarize ==
  /\ GuardianIdle
  /\ RetrieveIdle
  /\ ChromaIdle
  /\ UndoIdle
  /\ SchedulerIdle
  /\ PureIdle
  /\ raw_memory = [d \in 1..MaxDays |-> <<ChatText, ChatText>>]
  /\ old_days = 0
  /\ is_archived = [u \in Uuids |-> FALSE]
  /\ collection = {}
  /\ memory_index = {}
  /\ run = [NoRun(0) EXCEPT !.trace = TRUE]

NextSummarize ==
  \/ StartRun
  \/ ProcessGroup
  \/ \E result \in {"returned", "exception", "no_provider"}, completion_len \in CompletionLens :
       TextChat(result, completion_len)

SpecSummarize == InitSummarize /\ [][NextSummarize]_vars

InitChroma ==
  /\ GuardianIdle
  /\ RetrieveIdle
  /\ ArchiveIdle
  /\ ChromaIdle
  /\ UndoIdle
  /\ SchedulerIdle
  /\ PureIdle

NextChroma ==
  \/ \E c \in Callers : EnsureChroma(c)
  \/ \E c \in Callers : LockAcquired(c)
  \/ \E c \in Callers, ok \in BOOLEAN : InitChromaDone(c, ok)

SpecChroma == InitChroma /\ [][NextChroma]_vars

\* the failures injected into one delete: one raising call, or a raising
\* collection.get (which the delete survives)
DeleteFaults ==
  {<<fail_at, FALSE>> : fail_at \in RefSet(DeleteSteps) \ {"record"}} \cup {<<"done", TRUE>>}

\* delete followed by undo, with every failure of a storage call
InitUndo ==
  /\ GuardianIdle
  /\ RetrieveIdle
  /\ ArchiveIdle
  /\ ChromaIdle
  /\ SchedulerIdle
  /\ PureIdle
  /\ UndoStores(MaxSummaries)

NextUndo ==
  \/ \E sequence_num \in 1..(MaxSummaries + 1), delete_raw \in BOOLEAN, fault \in DeleteFaults :
       Delete("U1", sequence_num, delete_raw, fault[1], fault[2], MaxUndoOps)
  \/ \E fail_at \in RefSet(UndoSteps) : Undo("U1", fail_at, MaxUndoOps)

SpecUndo == InitUndo /\ [][NextUndo]_vars

\* longer sequences of deletes and undos over more summaries
InitHistory ==
  /\ GuardianIdle
  /\ RetrieveIdle
  /\ ArchiveIdle
  /\ ChromaIdle
  /\ SchedulerIdle
  /\ PureIdle
  /\ UndoStores(MaxHistorySummaries)

NextHistory ==
  \/ \E sequence_num \in 1..2, fail_at \in {"vector", "done"} :
       Delete("U1", sequence_num, FALSE, fail_at, FALSE, MaxHistoryOps)
  \/ \E fail_at \in {"add", "done"} : Undo("U1", fail_at, MaxHistoryOps)

SpecHistory == InitHistory /\ [][NextHistory]_vars

\* deletes by sequence number and by id, with every failure of a storage call
InitDelete ==
  /\ GuardianIdle
  /\ RetrieveIdle
  /\ ArchiveIdle
  /\ ChromaIdle
  /\ SchedulerIdle
  /\ PureIdle
  /\ UndoStores(MaxSummaries)

NextDelete ==
  \/ \E sequence_num \in 1..(MaxSummaries + 1), delete_raw \in BOOLEAN, fault \in DeleteFaults :
       Delete("U1", sequence_num, delete_raw, fault[1], fault[2], MaxUndoOps)
  \/ \E short_id \in 1..(MaxSummaries + 1), delete_raw \in BOOLEAN,
        fail_at \in {"vector", "raw", "index", "done"} :
       DeleteById("U1", short_id, delete_raw, fail_at, MaxUndoOps)

SpecDelete == InitDelete /\ [][NextDelete]_vars

MaxCommandOps == 3

\* the delete command, by sequence number or by id, and the undo command
NextCommands ==
  \/ \E sequence_num \in 1..MaxSummaries, delete_raw \in BOOLEAN, fail_at \in {"vector", "done"} :
       Delete("U1", sequence_num, delete_raw, fail_at, FALSE, MaxCommandOps)
  \/ \E short_id \in 1..MaxSummaries, delete_raw \in BOOLEAN, fail_at \in {"vector", "done"} :
       DeleteById("U1", short_id, delete_raw, fail_at, MaxCommandOps)
  \/ \E fail_at \in {"add", "done"} : Undo("U1", fail_at, MaxCommandOps)

SpecCommands == InitDelete /\ [][NextCommands]_vars

\* lookups by sequence number over the stores of two owners
InitLookup ==
  /\ GuardianIdle
  /\ RetrieveIdle
  /\ ArchiveIdle
  /\ ChromaIdle
  /\ SchedulerIdle
  /\ \E s1 \in OwnerStores("U1"), s2 \in OwnerStores("U2") :
        /\ mem_rows = s1 \cup s2
        /\ raw_rows = [u \in UNION {RefSet(r.ref_uuids) : r \in s1 \cup s2} |-> TRUE]
  /\ vec_entries = {}
  /\ _delete_history = [user_id \in Owners |-> <<>>]
  /\ dOps = 0
  /\ dSerial = 0
  /\ dLog = <<>>
  /\ dDisplaced = {}
  /\ dBefore = [index_id |-> Null]
  /\ dPrev = [op |-> "none"]
  /\ dLast = [op |-> "none"]
  /\ call_args \in [fn : {"get_memory_detail", "delete_memory_by_sequence"},
                     sequence_num : 1..(MaxSummaries + 1)]
  /\ call_result = NotReturned

NextLookup == LookupBySequence

SpecLookup == InitLookup /\ [][NextLookup]_vars

\* every operation of every owner on the stores of two owners
InitOwners ==
  /\ GuardianIdle
  /\ RetrieveIdle
  /\ ArchiveIdle
  /\ ChromaIdle
  /\ SchedulerIdle
  /\ PureIdle
  /\ OwnerData(MaxOwnerSummaries)

NextOwners ==
  \E user_id \in Owners :
     \/ \E sequence_num \in 1..MaxOwnerSummaries, delete_raw \in BOOLEAN,
           fail_at \in {"index", "done"} :
          Delete(user_id, sequence_num, delete_raw, fail_at, FALSE, MaxOwnerOps)
     \/ \E short_id \in {r.index_id : r \in mem_rows}, delete_raw \in BOOLEAN :
          DeleteById(user_id, short_id, delete_raw, "done", MaxOwnerOps)
     \/ \E fail_at \in {"add", "done"} : Undo(user_id, fail_at, MaxOwnerOps)
     \/ \E ok \in BOOLEAN : ClearRaw(user_id, ok)
     \/ \E done \in 0..3 : ClearArchive(user_id, done)
     \/ \E done \in 0..3 : ClearAll(user_id, done)
     \/ \E summarized \in SUBSET (1..(MaxOwnerSummaries + 1)) : ArchiveOwner(user_id, summarized)
     \/ \E ids \in SUBSET {v.id : v \in vec_entries} : RetrieveOwner(user_id, ids)

SpecOwners == InitOwners /\ [][NextOwners]_vars

\* archival runs, deletes that keep the raw messages, and undos of one owner
MaxCoverOps == 4

InitCoverage ==
  /\ GuardianIdle
  /\ RetrieveIdle
  /\ ArchiveIdle
  /\ ChromaIdle
  /\ SchedulerIdle
  /\ PureIdle
  /\ OwnerData(MaxOwnerSummaries)

NextCoverage ==
  \/ \E sequence_num \in 1..(MaxOwnerSummaries + 1), fail_at \in {"index", "done"} :
       Delete("U1", sequence_num, FALSE, fail_at, FALSE, MaxCoverOps)
  \/ \E fail_at \in {"add", "done"} : Undo("U1", fail_at, MaxCoverOps)
  \/ \E summarized \in SUBSET (1..(MaxOwnerSummaries + 1)) :
       ArchiveOwnerWithin("U1", summarized, MaxCoverOps)

SpecCoverage == InitCoverage /\ [][NextCoverage]_vars

\* the jobs running while the plugin is shut down
InitShutdown ==
  /\ GuardianIdle
  /\ RetrieveIdle
  /\ ArchiveIdle
  /\ ChromaIdle
  /\ UndoIdle
  /\ SchedulerIdle
  /\ PureIdle

NextShutdown ==
  \/ SchedulerShutdown
  \/ LogicShutdown
  \/ \E j \in Jobs \ {"summarize_all_users"} : Wake(j)
  \/ \E due \in BOOLEAN : CheckAndSummarizeUnit(due)
  \/ StartSummarizeAll
  \/ SummarizeAllUnit
  \/ \E u \in Users : DailyPersonaUnit(u)
  \/ \E j \in {"weekly_folding", "monthly_folding"} : FoldingUnit(j)

SpecShutdown == InitShutdown /\ [][NextShutdown]_vars

\* one run of the weekly folding while users chat, the cache is cleaned and
\* the plugin may be shut down
InitFolding ==
  /\ GuardianIdle
  /\ RetrieveIdle
  /\ ArchiveIdle
  /\ ChromaIdle
  /\ UndoIdle
  /\ PureIdle
  /\ scheduler_is_shutdown = FALSE
  /\ logic_is_shutdown = FALSE
  /\ executor_shutdown = FALSE
  /\ jobs = [j \in Jobs |-> NoJob]
  /\ units = {}
  /\ last_chat_time \in Caches
  /\ timed = TimedIdle
  /\ tasks = NoTasks

NextFolding ==
  \/ \E enabled \in BOOLEAN : StartWeeklyFolding(enabled)
  \/ FoldingSleepDone
  \/ FoldBegin
  \/ \E outcome \in {"returned", "exception"} : FoldEnd(outcome)
  \/ \E u \in Users : RecordChat(u)
  \/ \E u \in Users : CleanupInactive(u)
  \/ SchedulerShutdown
  \/ LogicShutdown

SpecFolding == InitFolding /\ [][NextFolding]_vars

\* a run of the weekly and a run of the monthly folding
NextFoldingJobs ==
  \/ \E enabled \in BOOLEAN : StartWeeklyFolding(enabled)
  \/ FoldingSleepDone
  \/ FoldBegin
  \/ \E outcome \in {"returned", "exception"} : FoldEnd(outcome)
  \/ \E enabled \in BOOLEAN : StartMonthlyFolding(enabled)
  \/ MonthlySleepDone
  \/ MonthlyFoldBegin
  \/ \E outcome \in {"returned", "exception"} : MonthlyFoldEnd(outcome)
  \/ \E u \in Users : RecordChat(u)
  \/ SchedulerShutdown
  \/ LogicShutdown

SpecFoldingJobs == InitFolding /\ [][NextFoldingJobs]_vars


\* the idle state of every other component
OthersIdle ==
  /\ GuardianIdle
  /\ RetrieveIdle
  /\ ArchiveIdle
  /\ ChromaIdle
  /\ UndoIdle
  /\ SchedulerIdle

\* ---- _check_item_conflict over pairs of items ----
InitConflict ==
  /\ OthersIdle
  /\ call_args \in [fn : {"_check_item_conflict"}, old_item : ConflictItems,
                     new_item : ConflictItems]
  /\ call_result = NotReturned

NextConflict == CheckItemConflict

SpecConflict == InitConflict /\ [][NextConflict]_vars

\* ---- _check_strong_evidence("gender", ...) and _protect_basic_info ----
GenderLeads == {<<>>, <<"ta", "shuo">>}
GenderOpenings == {<<"wo", "shi">>, <<"wo", "shi", "ge">>}
GenderWords == {<<"nan">>, <<"nv">>}
ConfounderTails == {<<"peng", "you">>, <<"piao">>, <<"shen">>}
OtherTails == {<<>>, <<"sheng">>, <<"sheng", "peng", "you">>, <<"de">>, <<"ren">>}
GenderEndings == {<<>>, <<"le">>}

\* supporting texts: one statement of the speaker, a confounder or not
GenderText(lead, opening, word, tail, ending) ==
  lead \o opening \o word \o tail \o ending
GenderTextsWith(tails) ==
  {GenderText(l, o, w, t, e_) :
     l \in GenderLeads, o \in GenderOpenings, w \in GenderWords,
     t \in tails, e_ \in GenderEndings}
ConfounderTexts == GenderTextsWith(ConfounderTails)
GenderTexts == GenderTextsWith(ConfounderTails \cup OtherTails)

\* the old profile has gender "nan", the LLM proposes "nv"
OldGenderBasic == PopulatedProfile("U1").basic_info
NewGenderBasic == [OldGenderBasic EXCEPT !.gender = "nv"]

CheckStrongEvidence ==
  /\ call_args.fn = "_check_strong_evidence"
  /\ ~call_result.done
  /\ call_result' =
        Returned([evidence |-> _check_strong_evidence(call_args.field, call_args.memory_texts),
                  validated |-> _protect_basic_info(OldGenderBasic, NewGenderBasic,
                                                    call_args.memory_texts)])
  /\ UNCHANGED <<call_args, gvars, rvars, avars, cvars, dvars, svars>>

\* ---- the gender evidence check over statements of the speaker ----
InitEvidence ==
  /\ GuardianInit(Configs({TRUE}, {2}, {TRUE}, BOOLEAN), {DefaultProfile("U1")}, {ItemOrder})
  /\ RetrieveIdle
  /\ ArchiveIdle
  /\ ChromaIdle
  /\ UndoIdle
  /\ SchedulerIdle
  /\ call_args \in [fn : {"_check_strong_evidence"}, field : {"gender"},
                     memory_texts : GenderTexts]
  /\ call_result = NotReturned

NextEvidence == CheckStrongEvidence

SpecEvidence == InitEvidence /\ [][NextEvidence]_vars

\* ---- the message validity predicate ----
MaxFill == 9

\* n letters
RECURSIVE Letters(_)
Letters(n) == IF n = 0 THEN <<>> ELSE <<"h">> \o Letters(n - 1)

\* the messages of the model: blanks at the ends, a first character that may
\* be a prefix, a middle with underscores, blanks and CJK characters, and
\* letters that bring the length to both sides of 10
MessageLeads == {<<>>, <<" ">>, <<"\t">>}
MessageFirsts == {<<>>, <<"/">>, <<"~", "e">>, <<"e">>}
MessageMiddles ==
  {<<>>, <<"_">>, <<"e", " ", "l">>, <<"e", "_", "l">>, <<"_", " ", "l">>, <<"_", "\t", "l">>,
   <<"xi">>, <<"xi", "huan">>, <<"xi", "_", "huan">>}
MessageTrails == {<<>>, <<" ">>}
Messages ==
  {lead \o first \o middle \o Letters(n) \o trail :
     lead \in MessageLeads, first \in MessageFirsts, middle \in MessageMiddles,
     n \in {0} \cup (MaxFill - 4)..MaxFill, trail \in MessageTrails}

\* the option command_prefixes: the default, one string, a list with an
\* empty string, an empty list, a prefix of two characters
PrefixOptions ==
  {DefaultPrefixes,
   [kind |-> "str", value |-> <<"/">>],
   [kind |-> "str", value |-> <<>>],
   [kind |-> "list", value |-> << <<>>, <<"#">> >>],
   [kind |-> "list", value |-> <<>>],
   [kind |-> "list", value |-> << <<"~", "e">> >>]}

CallValid ==
  /\ call_args.fn = "_is_valid_message_content"
  /\ call_result = NotReturned
  /\ call_result' = Returned(_is_valid_message_content(call_args.text,
                                                       call_args.enable_command_filter,
                                                       call_args.option))
  /\ UNCHANGED call_args
  /\ UNCHANGED <<gvars, rvars, avars, cvars, dvars, svars>>

InitValid ==
  /\ OthersIdle
  /\ call_result = NotReturned
  /\ \E text \in Messages, enable_command_filter \in BOOLEAN, option \in PrefixOptions :
        call_args = [fn |-> "_is_valid_message_content", text |-> text,
                     enable_command_filter |-> enable_command_filter, option |-> option]

NextValid == CallValid

SpecValid == InitValid /\ [][NextValid]_vars

\* ---- the Chinese n-grams of _generate_query_keywords ----
MaxRun == 7

\* the runs of 1..MaxRun CJK characters; wo is a stopword
RunChars == {"xi", "wo"}
RECURSIVE RunsOfLen(_)
RunsOfLen(n) ==
  IF n = 0 THEN {<<>>} ELSE {<<c>> \o r : c \in RunChars, r \in RunsOfLen(n - 1)}
Runs == UNION {RunsOfLen(n) : n \in 1..MaxRun}

\* the options keyword_ngram_min and keyword_ngram_max
NgramOptions ==
  [keyword_ngram_min : 1..3, keyword_ngram_max : {1, 3, 4, 7}]

CallKeywords ==
  /\ call_args.fn = "_generate_query_keywords"
  /\ call_result = NotReturned
  /\ call_result' = Returned(_generate_query_keywords(call_args.query, call_args.cfg))
  /\ UNCHANGED call_args
  /\ UNCHANGED <<gvars, rvars, avars, cvars, dvars, svars>>

InitKeywords ==
  /\ OthersIdle
  /\ call_result = NotReturned
  /\ \E query \in Runs, cfg \in NgramOptions :
        call_args = [fn |-> "_generate_query_keywords", query |-> query, cfg |-> cfg]

NextKeywords == CallKeywords

SpecKeywords == InitKeywords /\ [][NextKeywords]_vars

\* the timed archival of the users while they chat and time passes
InitTimed ==
  /\ GuardianIdle
  /\ RetrieveIdle
  /\ ArchiveIdle
  /\ ChromaIdle
  /\ UndoIdle
  /\ PureIdle
  /\ SchedulerIdle

NextTimed ==
  \/ \E u \in Users : RecordSave(u)
  \/ \E u \in Users : RecordCount(u)
  \/ \E u \in Users : TimePasses(u)
  \/ PassStart
  \/ PassNext
  \/ PassEnd
  \/ \E outcome \in {"ok", "llm_failed", "raised"} : ArchiveEnd(outcome)

SpecTimed == InitTimed /\ [][NextTimed]_vars

\* the scheduler keeps running, time passes, a call of record_message
\* finishes, and an archival that is attempted again and again succeeds
FairTimed ==
  /\ WF_vars(PassStart)
  /\ WF_vars(PassNext)
  /\ WF_vars(PassEnd)
  /\ \A u \in Users : WF_vars(TimePasses(u))
  /\ \A u \in Users : WF_vars(RecordCount(u))
  /\ WF_vars(\E outcome \in {"ok", "llm_failed", "raised"} : ArchiveEnd(outcome))
  /\ SF_vars(ArchiveEnd("ok"))

SpecTimedFair == InitTimed /\ [][NextTimed]_vars /\ FairTimed

(***************************************************************************)
(* ProfileManager.update_interaction_stats and update_persona_daily of one *)
(* user, each a read of the profile file, an await, and a write. The       *)
(* variable profile is the file.                                           *)
(***************************************************************************)
TasksOnly ==
  /\ UNCHANGED <<scheduler_is_shutdown, logic_is_shutdown, executor_shutdown, jobs, units,
                 last_chat_time, timed>>
  /\ UNCHANGED <<config, lastOld, lastNew, lastText, conflicts, cycle, iterOrder, proposed>>
  /\ UNCHANGED <<rvars, avars, cvars, dvars, pvars>>

\* a call reads the file while another call is between its read and its write
Overlaps ==
  \/ tasks.persona.pc = "read"
  \/ \E c \in StatCallers : tasks.stats[c].pc = "read"

\* update_interaction_stats up to the await of update_user_profile: the
\* profile is read and total_valid_chats of the copy is incremented
StatsRead(c) ==
  /\ tasks.stats[c].pc = "idle"
  /\ tasks' = [tasks EXCEPT
       !.stats[c] = [pc |-> "read",
                     total_valid_chats |->
                       profile.social_graph.interaction_stats.total_valid_chats + 1],
       !.overlapped = @ \/ Overlaps]
  /\ UNCHANGED profile
  /\ TasksOnly

\* update_user_profile(user_id, {"social_graph": {"interaction_stats":
\* stats}}): the social_graph of the file is updated with the given dict
update_user_profile(stored, stats) ==
  [stored EXCEPT !.social_graph.interaction_stats = stats]

StatsWrite(c) ==
  /\ tasks.stats[c].pc = "read"
  /\ profile' = update_user_profile(profile, Stats(tasks.stats[c].total_valid_chats))
  /\ tasks' = [tasks EXCEPT !.stats[c].pc = "done"]
  /\ TasksOnly

\* update_persona_daily up to the await of text_chat: the memories are not
\* empty and the current profile is read
PersonaRead ==
  /\ tasks.persona.pc = "idle"
  /\ tasks' = [tasks EXCEPT
       !.persona = [pc |-> "read", current_persona |-> profile],
       !.overlapped = @ \/ Overlaps]
  /\ UNCHANGED profile
  /\ TasksOnly

\* the LLM answered with a profile: the validated profile is written
PersonaWrite(new_persona) ==
  /\ tasks.persona.pc = "read"
  /\ profile' = validate_update(tasks.persona.current_persona, new_persona, <<>>,
                                cycle + 1, iterOrder).validated
  /\ tasks' = [tasks EXCEPT !.persona = [pc |-> "done"]]
  /\ TasksOnly

\* the LLM call or the parsing raised: nothing is written
PersonaFails ==
  /\ tasks.persona.pc = "read"
  /\ tasks' = [tasks EXCEPT !.persona = [pc |-> "done"]]
  /\ UNCHANGED profile
  /\ TasksOnly

InitStatsRace ==
  /\ RetrieveIdle
  /\ ArchiveIdle
  /\ ChromaIdle
  /\ UndoIdle
  /\ SchedulerIdle
  /\ PureIdle
  /\ GuardianInit(Configs({TRUE}, {2}, {TRUE}, {TRUE}),
                  {DefaultProfile("U1"), PendingProfile("U1")}, {ItemOrder})

NextStatsRace ==
  \/ \E c \in StatCallers : StatsRead(c)
  \/ \E c \in StatCallers : StatsWrite(c)
  \/ PersonaRead
  \/ /\ tasks.persona.pc = "read"
     /\ \E new_persona \in StatsInputs(tasks.persona.current_persona) :
          PersonaWrite(new_persona)
  \/ PersonaFails

SpecStatsRace == InitStatsRace /\ [][NextStatsRace]_vars

(***************************************************************************)
(* Properties of the profile guardian                                      *)
(***************************************************************************)
Pending(k) ==
  {p \in profile.pending_proposals : p.category = k[1] /\ p.value = k[2]}
Confirmed(k) == k[2] \in profile.attributes[k[1]]

\* C1: after any sequence of update cycles no pending proposal (category,
\* value) has its value in the confirmed attribute list of that category
C1_PendingNotConfirmed ==
  \A p \in profile.pending_proposals :
     p.category \in categories => p.value \notin profile.attributes[p.category]

\* a proposal that was pending before the last cycle is now confirmed, while
\* other proposals are still pending
C1_Witness ==
  /\ cycle > 0
  /\ profile.pending_proposals # {}
  /\ \E p \in lastOld.pending_proposals :
        /\ p.value \in profile.attributes[p.category]
        /\ p.value \notin lastOld.attributes[p.category]

\* C2: with confidence enabled and threshold T >= 2, an unconfirmed value is
\* pending with confidence equal to the number n of cycles in which the LLM
\* proposed it while n < T, and on the T-th such cycle it is confirmed and no
\* longer pending
C2_ConfidenceCountsProposals ==
  (config.enable_confidence /\ config.confidence_threshold >= 2) =>
    \A k \in AttrKeys :
       /\ proposed[k] = 0 => (Pending(k) = {} /\ ~Confirmed(k))
       /\ (0 < proposed[k] /\ proposed[k] < config.confidence_threshold) =>
            /\ ~Confirmed(k)
            /\ \E p \in Pending(k) : Pending(k) = {p} /\ p.confidence = proposed[k]
       /\ proposed[k] >= config.confidence_threshold =>
            /\ proposed[k] = config.confidence_threshold
            /\ Confirmed(k)
            /\ Pending(k) = {}

\* a value proposed for the T-th time in the last cycle went from pending with
\* confidence T-1 to confirmed
C2_Witness ==
  /\ cycle > 0
  /\ config.enable_confidence
  /\ config.confidence_threshold >= 2
  /\ \E k \in AttrKeys :
        /\ proposed[k] = config.confidence_threshold
        /\ Confirmed(k)
        /\ \E p \in lastOld.pending_proposals :
              /\ <<p.category, p.value>> = k
              /\ p.confidence = config.confidence_threshold - 1

\* C3: a fully protected basic_info field whose current value is set keeps
\* that value through validate_update, whatever the LLM proposes and whatever
\* the supporting text is
C3_FullyProtectedKept ==
  cycle > 0 =>
    \A f \in fully_protected :
       IsSet(lastOld.basic_info[f]) => profile.basic_info[f] = lastOld.basic_info[f]

\* the LLM proposed another value for a set fully protected field, with a
\* non-empty supporting text
C3_Witness ==
  /\ cycle > 0
  /\ lastText # <<>>
  /\ \E f \in fully_protected :
        /\ IsSet(lastOld.basic_info[f])
        /\ lastNew.basic_info[f] # lastOld.basic_info[f]
        /\ IsSet(lastNew.basic_info[f])

\* C4: with evidence protection enabled, for an evidence-protected field whose
\* current value is set and whose proposed value differs, the validated value
\* is the proposed one only if the supporting text matches a pattern of the
\* field, and is the current one whenever no pattern matches
C4_EvidenceRequired ==
  (cycle > 0 /\ config.enable_strong_evidence) =>
    \A f \in evidence_protected :
       (IsSet(lastOld.basic_info[f]) /\ lastNew.basic_info[f] # lastOld.basic_info[f]) =>
          /\ profile.basic_info[f] = lastNew.basic_info[f] =>
               _check_strong_evidence(f, lastText)
          /\ ~_check_strong_evidence(f, lastText) =>
               profile.basic_info[f] = lastOld.basic_info[f]

\* both outcomes in one profile history is not possible in one cycle; the
\* witness is the blocked change of a set field under a non-matching text that
\* matches the patterns of another field
C4_Witness ==
  /\ cycle > 0
  /\ config.enable_strong_evidence
  /\ \E f \in evidence_protected, g \in evidence_protected :
        /\ IsSet(lastOld.basic_info[f])
        /\ IsSet(lastNew.basic_info[f])
        /\ lastNew.basic_info[f] # lastOld.basic_info[f]
        /\ ~_check_strong_evidence(f, lastText)
        /\ _check_strong_evidence(g, lastText)
        /\ profile.basic_info[f] = lastOld.basic_info[f]

\* the new items of a category that conflict with some old item of it
NewConflicting(c) ==
  {n \in lastNew.preferences[c] :
     \E o \in lastOld.preferences[c] : ConflictTable[o, n] # None}

\* one conflict record per conflicting new item of category c, carrying the
\* category, an old item it conflicts with, the new item and the conflict type
OneRecordPerConflict(c) ==
  LET recs == {r \in conflicts : r.category = c}
  IN  /\ \A r \in recs :
            /\ r.new_value \in NewConflicting(c)
            /\ r.old_value \in lastOld.preferences[c]
            /\ r.conflict_type # None
            /\ r.conflict_type = ConflictTable[r.old_value, r.new_value]
      /\ \A n \in NewConflicting(c) :
            Cardinality({r \in recs : r.new_value = n}) = 1

\* C5 as stated: the validated list is the old items united with the new items
\* that conflict with no old item; every old item is kept, every new item that
\* conflicts with some old item is dropped, one record per dropped item
C5_AsStated ==
  (cycle > 0 /\ config.enable_conflict_detection) =>
    \A c \in pref_categories :
       /\ profile.preferences[c] =
            lastOld.preferences[c] \cup (lastNew.preferences[c] \ NewConflicting(c))
       /\ lastOld.preferences[c] \subseteq profile.preferences[c]
       /\ \A n \in NewConflicting(c) : n \notin profile.preferences[c]
       /\ OneRecordPerConflict(c)

\* C5 amended: a conflicting new item is absent from the validated list unless
\* it is itself one of the old items, which are all kept
C5_ConflictingNewDropped ==
  (cycle > 0 /\ config.enable_conflict_detection) =>
    \A c \in pref_categories :
       /\ profile.preferences[c] =
            lastOld.preferences[c] \cup (lastNew.preferences[c] \ NewConflicting(c))
       /\ lastOld.preferences[c] \subseteq profile.preferences[c]
       /\ \A n \in NewConflicting(c) \ lastOld.preferences[c] :
             n \notin profile.preferences[c]
       /\ OneRecordPerConflict(c)

\* in one update a conflicting new item was dropped and recorded while a
\* non-conflicting new item was added next to the old items
C5_Witness ==
  /\ cycle > 0
  /\ config.enable_conflict_detection
  /\ \E c \in pref_categories :
        /\ \E n \in NewConflicting(c) \ lastOld.preferences[c] :
              /\ n \notin profile.preferences[c]
              /\ \E r \in conflicts : r.category = c /\ r.new_value = n
        /\ \E m \in lastNew.preferences[c] \ lastOld.preferences[c] :
              m \in profile.preferences[c]

(***************************************************************************)
(* Properties of retrieve_memories                                         *)
(***************************************************************************)
\* the candidates of the last call, in the order collection.query gave them
Candidates == rData
\* the results of collection.query within the similarity threshold
WithinThreshold ==
  SelectSeq(rResults, LAMBDA r : r.distance <= rConfig.memory_similarity_threshold)
\* the last call took the RRF branch
Hybrid ==
  /\ rConfig.enable_keyword_boost
  /\ query_keywords_of(rConfig, rQuery) # {}
  /\ Len(WithinThreshold) > 1
\* position of a summary in the returned list, 0 when it is not returned
PosInOutput(id) ==
  IF \E k \in 1..Len(rOutput) : rOutput[k].index_id = id
  THEN CHOOSE k \in 1..Len(rOutput) : rOutput[k].index_id = id
  ELSE 0
\* candidate i is the only one with a non-zero keyword score
SoleKeywordMatch(i) ==
  /\ FLess(FInt(0), Candidates[i].keyword_score)
  /\ \A j \in 1..Len(Candidates) : j # i => Candidates[j].keyword_score = FInt(0)
DefaultWeights == rConfig.keyword_boost_weight = <<1, 2>>

\* C6 as stated: in hybrid mode with weights 0.5/0.5 and at least two
\* candidates, the only candidate with a non-zero keyword score is returned
\* first whatever its vector rank
C6_AsStated ==
  (rPhase = "returned" /\ Hybrid /\ DefaultWeights /\ Len(Candidates) >= 2) =>
    \A i \in 1..Len(Candidates) :
       SoleKeywordMatch(i) => rOutput[1].index_id = Candidates[i].index_id

\* C6 amended: the only keyword-matching candidate is returned first when its
\* vector rank is 1; otherwise the candidate of vector rank 1 is first; in
\* every case it precedes each candidate of larger vector rank
C6_SoleMatchFirstOnlyIfNearest ==
  (rPhase = "returned" /\ Hybrid /\ DefaultWeights /\ Len(Candidates) >= 2) =>
    \A i \in 1..Len(Candidates) :
       SoleKeywordMatch(i) =>
         /\ vector_rank(Candidates, i) = 1 => rOutput[1].index_id = Candidates[i].index_id
         /\ vector_rank(Candidates, i) > 1 =>
              \E j \in 1..Len(Candidates) :
                 /\ vector_rank(Candidates, j) = 1
                 /\ rOutput[1].index_id = Candidates[j].index_id
         /\ \A j \in 1..Len(Candidates) :
               (vector_rank(Candidates, j) > vector_rank(Candidates, i)
                  /\ PosInOutput(Candidates[j].index_id) > 0) =>
                 /\ PosInOutput(Candidates[i].index_id) > 0
                 /\ PosInOutput(Candidates[i].index_id) < PosInOutput(Candidates[j].index_id)

\* the only keyword-matching candidate has vector rank 3 and is returned
\* second, behind the nearest candidate and ahead of none of smaller rank
C6_Witness ==
  /\ rPhase = "returned"
  /\ Hybrid
  /\ DefaultWeights
  /\ \E i \in 1..Len(Candidates) :
        /\ SoleKeywordMatch(i)
        /\ vector_rank(Candidates, i) = 3
        /\ PosInOutput(Candidates[i].index_id) = 2

\* the rrf value the claim gives for candidate i
ClaimedRrf(i) ==
  FAdd(FDiv(FSub(FInt(1), rConfig.keyword_boost_weight),
            FInt(60 + vector_rank(Candidates, i))),
       FDiv(rConfig.keyword_boost_weight, FInt(60 + keyword_rank(Candidates, i))))
CandidateOf(id) == CHOOSE i \in 1..Len(Candidates) : Candidates[i].index_id = id

\* C7: the returned list holds only candidates within the similarity
\* threshold, at most limit of them, in hybrid mode the first limit candidates
\* in non-increasing order of rrf, and in the order the ranker produced
C7_FilterLimitOrder ==
  rPhase = "returned" =>
    /\ \A k \in 1..Len(rOutput) :
          \E r \in 1..Len(rResults) :
             /\ rResults[r].index_id = rOutput[k].index_id
             /\ rResults[r].distance <= rConfig.memory_similarity_threshold
    /\ Len(rOutput) <= rLimit
    /\ Hybrid =>
         /\ Len(rOutput) = Min(rLimit, Len(WithinThreshold))
         /\ \A k \in 1..Len(rRanked) :
               rRanked[k].rrf_score = ClaimedRrf(CandidateOf(rRanked[k].index_id))
         /\ \A k \in 1..(Len(rRanked) - 1) :
               ~FLess(rRanked[k].rrf_score, rRanked[k + 1].rrf_score)
         /\ \A i \in 1..Len(Candidates) :
               PosInOutput(Candidates[i].index_id) = 0 =>
                 \A k \in 1..Len(rRanked) : ~FLess(rRanked[k].rrf_score, ClaimedRrf(i))
    /\ Len(rOutput) = Len(rRanked)
    /\ \A k \in 1..Len(rOutput) : rOutput[k].index_id = rRanked[k].index_id

\* a hybrid call in which one result was filtered out, the candidates were
\* truncated to limit and the first returned summary is not the nearest one
C7_Witness ==
  /\ rPhase = "returned"
  /\ Hybrid
  /\ Len(Candidates) < Len(rResults)
  /\ Len(rOutput) = rLimit
  /\ Len(Candidates) > rLimit
  /\ rOutput[1].index_id # Candidates[1].index_id

\* the conditions under which the claim says the ranking degrades
FallbackCase ==
  \/ Len(WithinThreshold) < 2
  \/ ~rConfig.enable_keyword_boost
  \/ query_keywords_of(rConfig, rQuery) = {}

\* C8: with fewer than two candidates, keyword boosting disabled or no query
\* keywords, the returned list is the candidates by ascending vector distance
\* (the nearest limit of them, in the order of collection.query)
C8_FallbackByDistance ==
  (rPhase = "returned" /\ FallbackCase) =>
    /\ Len(rOutput) = Min(rLimit, Len(WithinThreshold))
    /\ \A k \in 1..Len(rOutput) : rOutput[k].index_id = WithinThreshold[k].index_id
    /\ \A k \in 1..(Len(rRanked) - 1) : rRanked[k].distance <= rRanked[k + 1].distance

\* keyword boosting is disabled and a farther candidate is the only one that
\* contains a query keyword: it is still returned behind the nearer one
C8_Witness ==
  /\ rPhase = "returned"
  /\ ~rConfig.enable_keyword_boost
  /\ Len(rOutput) >= 2
  /\ \E i \in 2..Len(Candidates) :
        /\ SoleKeywordMatch(i)
        /\ Candidates[1].distance < Candidates[i].distance
        /\ PosInOutput(Candidates[i].index_id) = i

(***************************************************************************)
(* Properties of _summarize_private_chat                                   *)
(***************************************************************************)
\* the messages of day d are summarized, not archived by force
Summarizable(d) ==
  /\ d > old_days
  /\ \E u \in UuidsOfDay(d) : _is_valid_message_content(raw_memory[d][u[2]], TRUE, DefaultPrefixes)
\* a summary that refers to message u is in the summary store and its entry
\* is in the vector collection
StoredSummaryOf(u) ==
  \E p \in memory_index : u \in p.ref_uuids /\ p.index_id \in collection

\* C9: in every state of an archival run, interrupted or failing runs
\* included, a raw message marked archived because it was folded into a
\* summary has that summary in the vector index and in the summary store
C9_ArchivedAfterCommit ==
  \A u \in Uuids : (is_archived[u] /\ Summarizable(u[1])) => StoredSummaryOf(u)

\* a second run failed after its vector write while the messages archived by
\* the first run have their summary in both stores
C9_Witness ==
  /\ run.pc = "ended"
  /\ run.outcome \in {"error", "cancelled"}
  /\ run.batch_add # <<>>
  /\ \A i \in 1..Len(run.batch_add) : run.batch_add[i] \in collection
  /\ \E u \in Uuids : is_archived[u] /\ Summarizable(u[1]) /\ StoredSummaryOf(u)
  /\ \E u \in Uuids : ~is_archived[u] /\ u \in run.archive_uuids_summarized

\* the run ended without completing
NotCompleted ==
  /\ run.pc = "ended"
  /\ (run.outcome # "completed" \/ run.llm_failed # {})
\* the three effects of the current run for the batch of day d
VectorAdded(d) == IndexId(run.n, d) \in collection
SummarySaved(d) == \E p \in memory_index : p.index_id = IndexId(run.n, d)
MarkedArchived(d) == \A u \in UuidsOfDay(d) : is_archived[u]

\* C10: when a run ends without completing, for every day batch sent for
\* summarization the vector entry, the summary record and the archive
\* marks are all committed or all absent
C10_AllOrNothing ==
  NotCompleted =>
    \A d \in run.sent :
       \/ VectorAdded(d) /\ SummarySaved(d) /\ MarkedArchived(d)
       \/ ~VectorAdded(d) /\ ~SummarySaved(d) /\ ~MarkedArchived(d)

(***************************************************************************)
(* Properties of _ensure_chroma_initialized                                *)
(***************************************************************************)
\* C11: under any interleaving of concurrent callers the initialization is
\* started at most once while no earlier attempt has failed, it succeeds at
\* most once, no caller returns normally before the collection is set, and
\* a failed attempt leaves the flag unset
C11_InitOnce ==
  /\ init_started <= init_failed + 1
  /\ init_succeeded <= 1
  /\ Cardinality({c \in Callers : cPc[c] = "init"}) <= 1
  /\ \A c \in Callers : cPc[c] = "returned" => chroma_handles.collection # None
  /\ _chroma_initialized <=> init_succeeded = 1
  /\ init_succeeded = 0 => chroma_handles.collection = None

\* a first attempt failed, a later one succeeded, and a caller that had been
\* suspended on the lock returned without initializing again
C11_Witness ==
  /\ init_failed >= 1
  /\ init_succeeded = 1
  /\ init_started = init_failed + 1
  /\ \A c \in Callers : cPc[c] \in {"returned", "raised"}
  /\ \E c \in Callers : cPc[c] = "raised"
  /\ Cardinality({c \in Callers : cPc[c] = "returned" /\ cCalls[c] = 1}) >= 2

(***************************************************************************)
(* Properties of the reinforcement step of retrieve_memories               *)
(***************************************************************************)
ReturnedIds == {rOutput[k].index_id : k \in 1..Len(rOutput)}

\* C12: after retrieve_memories returned a non-empty list with a positive
\* bonus, the bump was attempted exactly once for every returned summary and
\* for no other; a failing bump leaves the other scores bumped by exactly the
\* bonus, the call returns and the list is the ranked list
C12_ReinforceEachReturned ==
  (rPhase = "returned" /\ rOutput # <<>> /\ rConfig.memory_reinforce_bonus > 0) =>
    /\ \A id \in IndexIds : bump_calls[id] = IF id \in ReturnedIds THEN 1 ELSE 0
    /\ rRaised \subseteq ReturnedIds
    /\ \A id \in IndexIds :
          active_score[id] = IF id \in ReturnedIds \ rRaised
                             THEN 100 + rConfig.memory_reinforce_bonus
                             ELSE 100
    /\ rOutput = all_memories(rRanked)
    /\ Len(rOutput) = Min(rLimit, Len(WithinThreshold))

\* two summaries were returned, the bump of the first raised and the second
\* was still bumped
C12_Witness ==
  /\ rPhase = "returned"
  /\ Len(rOutput) = 2
  /\ rConfig.memory_reinforce_bonus = 20
  /\ rRaised = {rOutput[1].index_id}
  /\ active_score[rOutput[1].index_id] = 100
  /\ active_score[rOutput[2].index_id] = 120
  /\ bump_calls[rOutput[2].index_id] = 1

(***************************************************************************)
(* Delete and undo                                                         *)
(***************************************************************************)
\* a successful delete that captured the vector entry, directly followed by
\* a successful undo
UndoneDelete ==
  /\ dLast.op = "undo" /\ dLast.ok
  /\ dPrev.op = "delete" /\ dPrev.ok /\ dPrev.captured

\* the summary row and the vector entry are what they were before the delete
SummaryRestored ==
  /\ {r \in mem_rows : r.index_id = dBefore.index_id} = {dBefore.row}
  /\ {v \in vec_entries : v.id = dBefore.index_id} = dBefore.entries

\* every message archived before the delete is stored and archived
RawRestored == \A u \in dBefore.archived : u \in DOMAIN raw_rows /\ raw_rows[u]

HistoryBounded ==
  /\ Len(_delete_history["U1"]) <= _max_undo_history
  /\ \A i, j \in 1..Len(_delete_history["U1"]) :
       i < j => _delete_history["U1"][i].serial > _delete_history["U1"][j].serial
  /\ \A i \in 1..Len(_delete_history["U1"]) :
       /\ _delete_history["U1"][i].serial = dLog[i].serial
       /\ _delete_history["U1"][i].serial \notin dDisplaced

\* C14: after any sequence of deletes and undos, failed ones included, the
\* history holds at most 3 records, most recent deletion first; an undo that
\* finds a record targets the most recent deletion not yet undone, and never
\* a displaced one.
C14_HistoryNewestFirst ==
  /\ HistoryBounded
  /\ dLast.op = "undo" /\ dLast.found =>
       /\ dLast.serial = dLast.newest_completed
       /\ dLast.serial \notin dDisplaced

(***************************************************************************)
(* The LLM attempts of one summarization batch                             *)
(***************************************************************************)
\* the attempt loop of day batch d of the current run is over
LoopOver(d) ==
  /\ d \in run.sent
  /\ ~(run.pc = "llm" /\ run.raw_msgs[run.pos].date_key = d)

\* the batch of day d yielded a summary
YieldedSummary(d) == \E i \in 1..Len(run.batch_add) : run.batch_add[i] = IndexId(run.n, d)

\* C15: a batch invokes the LLM at most 3 times; every invocation but the
\* last raised or returned fewer than 5 characters; the batch yields a
\* summary exactly when the last invocation returned an acceptable text, and
\* a batch without summary whose provider was present made exactly 3
\* invocations.
C15_AtMostThreeAttempts ==
  \A d \in 1..MaxDays :
    LET log == run.completions[d]
    IN  /\ Len(log) <= 3
        /\ \A i \in 1..(Len(log) - 1) : log[i] < 5
        /\ LoopOver(d) =>
             /\ YieldedSummary(d) <=> (Len(log) > 0 /\ log[Len(log)] >= 5)
             /\ ~YieldedSummary(d) <=> d \in run.llm_failed
             /\ ~YieldedSummary(d) /\ d \notin run.unavailable => Len(log) = 3

C15_Witness ==
  \E d, e \in 1..MaxDays :
    /\ d # e /\ LoopOver(d) /\ LoopOver(e)
    /\ run.completions[d] = <<Raised, 0, 4>> /\ ~YieldedSummary(d)
    /\ run.completions[e] = <<4, 5>> /\ YieldedSummary(e)

\* C16: between the failed LLM attempts of a batch the delay doubles: the
\* delay slept before the third attempt is twice the delay slept before the
\* second attempt.
C16_DelayDoubles ==
  \A d \in 1..MaxDays :
    Len(run.slept[d]) >= 2 => run.slept[d][2] = 2 * run.slept[d][1]

(***************************************************************************)
(* Shutdown                                                                *)
(***************************************************************************)
\* the units of work of job j that began while a shutdown flag was set
LateUnits(j) == {u \in units : u.job = j /\ u.after_shutdown}

\* C17: once a shutdown flag is set no job starts another unit of work.
C17_NoUnitAfterShutdown == \A j \in Jobs : LateUnits(j) = {}

\* the jobs of the scheduler that check the three flags before each unit
CheckedJobsStop ==
  \A j \in {"daily_persona", "weekly_folding", "monthly_folding"} : LateUnits(j) = {}

\* summarize_all_users starts no unit once the flag of the memory logic or
\* of the executor is set
SummarizeAllStops ==
  \A u \in units : u.job = "summarize_all_users" /\ u.after_shutdown => scheduler_is_shutdown

(***************************************************************************)
(* interaction_stats                                                       *)
(***************************************************************************)
\* C18: the validated profile carries the interaction_stats of the current
\* profile whatever the LLM proposed; when the current profile's
\* interaction_stats is empty or missing the validated profile carries no
\* interaction_stats written by the LLM.
C18_StatsCarriedOver ==
  cycle > 0 =>
    LET old_stats == lastOld.social_graph.interaction_stats
        validated_stats == profile.social_graph.interaction_stats
    IN  /\ Truthy(old_stats) => validated_stats = old_stats
        /\ ~Truthy(old_stats) => ~Truthy(validated_stats)

\* the part of C18 the code keeps: non-empty interaction_stats of the current
\* profile are copied whatever the LLM proposed
FilledStatsCarriedOver ==
  cycle > 0 /\ Truthy(lastOld.social_graph.interaction_stats) =>
    profile.social_graph.interaction_stats = lastOld.social_graph.interaction_stats

(***************************************************************************)
(* Pending proposals the LLM does not repeat                               *)
(***************************************************************************)
\* the LLM proposed the value of proposal p in the last cycle
ProposedAgain(p) == p.value \in lastNew.attributes[p.category]

\* the value of proposal p is a confirmed attribute after the last cycle
NowConfirmed(p) == p.value \in profile.attributes[p.category]

\* C19: a pending proposal that the LLM did not propose in the last cycle and
\* that was not confirmed in it is in the validated pending_proposals with
\* confidence, first_seen and last_seen unchanged; a pending proposal is gone
\* after a cycle only when its value was confirmed.
C19_UnproposedCarriedOver ==
  cycle > 0 =>
    \A p \in lastOld.pending_proposals :
      /\ ~ProposedAgain(p) /\ ~NowConfirmed(p) => p \in profile.pending_proposals
      /\ (\E q \in profile.pending_proposals :
            q.category = p.category /\ q.value = p.value) \/ NowConfirmed(p)

\* a proposal last seen in an earlier cycle is carried unchanged through a
\* cycle in which the LLM proposed another value
C19_Witness ==
  /\ cycle >= 2
  /\ \E p \in lastOld.pending_proposals :
       /\ ~ProposedAgain(p) /\ ~NowConfirmed(p)
       /\ p.last_seen >= 1 /\ p.last_seen < cycle
       /\ p \in profile.pending_proposals
       /\ \E c \in categories : lastNew.attributes[c] # {}

(***************************************************************************)
(* Items added to a preference category                                    *)
(***************************************************************************)
\* the items the last update added to category c
AddedItems(c) == profile.preferences[c] \ lastOld.preferences[c]

\* C20: with conflict detection enabled no item added to a preference
\* category conflicts with another item of the validated list of that
\* category, be it an old item or an item added in the same update.
C20_NoConflictingAddition ==
  (cycle > 0 /\ config.enable_conflict_detection) =>
    \A c \in pref_categories :
      \A n \in AddedItems(c) :
        \A m \in profile.preferences[c] \ {n} : ConflictTable[m, n] = None

\* the part of C20 the code keeps: no added item conflicts with an old item
NoAdditionConflictsWithOld ==
  (cycle > 0 /\ config.enable_conflict_detection) =>
    \A c \in pref_categories :
      \A n \in AddedItems(c) :
        \A m \in lastOld.preferences[c] : ConflictTable[m, n] = None

(***************************************************************************)
(* The item-conflict check                                                 *)
(***************************************************************************)
\* C21: _check_item_conflict(a, b) reports a conflict if and only if
\* _check_item_conflict(b, a) does.
C21_ConflictSymmetric ==
  (call_args.fn = "_check_item_conflict" /\ call_result.done) =>
     (call_result.value.as_given # None <=> call_result.value.exchanged # None)

\* the sentiment part of the check is symmetric
SentimentSymmetric ==
  (call_args.fn = "_check_item_conflict" /\ call_result.done) =>
     (call_result.value.as_given = "sentiment_conflict"
        => call_result.value.exchanged # None)

\* the gender evidence check has returned for a confounder text
ConfounderChecked ==
  /\ call_args.fn = "_check_strong_evidence"
  /\ call_result.done
  /\ call_args.memory_texts \in ConfounderTexts

\* C22: a supporting text in which "wo shi" or "wo shi ge" followed by nan or
\* nv is directly continued by peng-you, piao or shen does not satisfy the
\* gender evidence check, and with the evidence protection on, old gender nan
\* and proposed gender nv the validated gender is the old value
C22_ConfounderRejected ==
  ConfounderChecked =>
    /\ ~call_result.value.evidence
    /\ config.enable_strong_evidence =>
         call_result.value.validated.gender = OldGenderBasic.gender

\* the confounder "wo shi nan peng you" was checked with the protection on and
\* the proposed gender nv was turned down
C22_Witness ==
  /\ ConfounderChecked
  /\ call_args.memory_texts = <<"wo", "shi", "nan", "peng", "you">>
  /\ config.enable_strong_evidence
  /\ NewGenderBasic.gender = "nv"
  /\ call_result.value.validated.gender = "nan"

\* the last operation deleted a summary and kept its raw messages
KeptRawDelete(ops) ==
  /\ dLast.op \in ops
  /\ dLast.found
  /\ dLast.ok
  /\ ~dLast.delete_raw

\* every stored raw message the deleted summary referenced is marked
\* unarchived
ReferencedUnarchived ==
  \A u \in RefSet(dBefore.row.ref_uuids) \cap DOMAIN raw_rows : ~raw_rows[u]

\* C23: after a summary is successfully deleted with delete_raw = false, by
\* sequence number or by id, every raw message it referenced is marked
\* unarchived
C23_KeptRawUnarchived ==
  KeptRawDelete({"delete", "delete_by_id"}) => ReferencedUnarchived

\* the part of C23 on delete_memory_by_sequence
BySequenceUnarchived ==
  KeptRawDelete({"delete"}) => ReferencedUnarchived

\* delete_memory_by_id with delete_raw = false leaves the archived flags of
\* the referenced raw messages as they were
ByIdFlagsKept ==
  KeptRawDelete({"delete_by_id"}) =>
    \A u \in RefSet(dBefore.row.ref_uuids) \cap DOMAIN raw_rows :
       raw_rows[u] <=> u \in dBefore.archived

\* the summaries of an owner
SummariesOf(user_id) == {r \in mem_rows : r.user_id = user_id}

LookedUp == call_result.done /\ call_args.fn \in {"get_memory_detail", "delete_memory_by_sequence"}

\* the owner has no summaries at all
NoSummaries(user_id) == SummariesOf(user_id) = {}

\* the owner has summaries, but not one of this sequence number
NoSuchSequence(user_id) ==
  /\ SummariesOf(user_id) # {}
  /\ Cardinality(SummariesOf(user_id)) < call_args.sequence_num

\* the sequence number names a summary of the owner without raw messages
ExistsWithoutRaw(user_id) ==
  /\ Cardinality(SummariesOf(user_id)) >= call_args.sequence_num
  /\ get_memory_list(user_id, call_args.sequence_num)[call_args.sequence_num].ref_uuids = <<>>

\* C24: get_memory_detail and delete_memory_by_sequence return for an owner
\* without summaries an outcome that differs from the one for an owner who has
\* summaries but not this sequence number, and both differ from the outcome
\* for an existing summary without raw messages
C24_OutcomesDistinct ==
  LookedUp =>
    \A u, v \in Owners :
       /\ (NoSummaries(u) /\ NoSuchSequence(v)) =>
             call_result.value[u] # call_result.value[v]
       /\ ((NoSummaries(u) \/ NoSuchSequence(u)) /\ ExistsWithoutRaw(v)) =>
             call_result.value[u] # call_result.value[v]

\* the part of C24 that holds: a summary without raw messages is told apart
\* from both kinds of missing summary
MissingDiffersFromEmpty ==
  LookedUp =>
    \A u, v \in Owners :
       ((NoSummaries(u) \/ NoSuchSequence(u)) /\ ExistsWithoutRaw(v)) =>
          call_result.value[u] # call_result.value[v]

\* an owner without summaries and an owner without this sequence number get
\* the same outcome
MissingKindsAlike ==
  LookedUp =>
    \A u, v \in Owners :
       (NoSummaries(u) /\ NoSuchSequence(v)) =>
          call_result.value[u] = call_result.value[v]

\* the text is a JSON object
IsObjectText(text) == strip(text) \in {<<"{", "persona", "}">>, <<"{", "}">>}

\* the completion text cannot be parsed as a JSON object, as it is, after the
\* extraction of its fenced block and after the bracket-delimited extraction
Unparsable(content) ==
  /\ ~IsObjectText(content)
  /\ (\E i \in 1..Len(content) : content[i] = "fence_json") =>
        ~IsObjectText(FencedBlock(content))
  /\ (\E i \in 1..Len(content) : content[i] = "{") => ~IsObjectText(Bracketed(content))

PersonaUpdateReturned == call_args.fn = "update_persona_daily" /\ call_result.done

\* C25: when the completion text of a profile update cannot be parsed as a JSON
\* object, also after the extractions, update_persona_daily writes nothing, the
\* stored profile with its pending_proposals is the one stored before, and no
\* exception leaves the function
C25_UnparsableWritesNothing ==
  (PersonaUpdateReturned /\ Unparsable(call_args.content)) =>
     /\ ~call_result.value.wrote
     /\ ~call_result.value.raised
     /\ profile = call_result.value.stored_before
     /\ profile.pending_proposals = call_result.value.stored_before.pending_proposals

\* a stored profile with a pending proposal went through an update whose
\* completion text held a persona followed by a stray bracket
C25_Witness ==
  /\ PersonaUpdateReturned
  /\ Unparsable(call_args.content)
  /\ call_args.content = <<"text", "{", "persona", "}", "}">>
  /\ profile.pending_proposals # {}
  /\ call_result.value.logged = "JSONDecodeError"

\* the stored summary a prev_index_id names
Summary(index_id) == CHOOSE p \in memory_index : p.index_id = index_id

\* C26: after any sequence of archival runs every stored summary with a
\* non-null prev_index_id points to a stored summary whose created_at is not
\* later than its own
C26_ChainReverseChronological ==
  \A p \in memory_index :
     p.prev_index_id # NoIndex =>
        /\ \E q \in memory_index : q.index_id = p.prev_index_id
        /\ Summary(p.prev_index_id).created_at <= p.created_at

\* the part of C26 that holds: a non-null prev_index_id names a stored summary
PrevIsStored ==
  \A p \in memory_index :
     p.prev_index_id # NoIndex => \E q \in memory_index : q.index_id = p.prev_index_id

\* inside one run the chain follows the days
ChainOrderedInsideRun ==
  \A p \in memory_index :
     (p.prev_index_id # NoIndex /\ p.prev_index_id[1] = p.index_id[1]) =>
        p.prev_index_id[2] < p.created_at

\* what the stores hold for an owner: the raw messages with their archived
\* flags, the summaries with their active scores, the vector entries and the
\* delete-undo history
Holdings(user_id) ==
  [raw |-> {<<u, raw_rows[u]>> : u \in {u \in DOMAIN raw_rows : RawOwner(u) = user_id}},
   summaries |-> {r \in mem_rows : r.user_id = user_id},
   vectors |-> {v \in vec_entries : v.metadata.user_id = user_id},
   history |-> _delete_history[user_id]]

\* C27: an archival, retrieval, delete, undo or clear operation performed for
\* one owner leaves the raw messages, archived flags, summaries, active scores,
\* vector entries and delete-undo history of every other owner unchanged
C27_OtherOwnersUntouched ==
  [][\A user_id \in Owners :
        dLast'.user_id # user_id => Holdings(user_id)' = Holdings(user_id)]_vars

\* U1 cleared everything after U2 had deleted a summary: U1 holds nothing, U2
\* still holds its raw messages, its vector entries and its delete record
C27_Witness ==
  /\ dLast.op = "clear_all" /\ dLast.ok /\ dLast.user_id = "U1"
  /\ dPrev.op = "delete" /\ dPrev.ok /\ dPrev.user_id = "U2"
  /\ Holdings("U1").raw = {} /\ Holdings("U1").summaries = {} /\ Holdings("U1").vectors = {}
  /\ Holdings("U2").raw # {}
  /\ Len(Holdings("U2").history) = 1

\* the run of the weekly folding has ended
FoldingEnded == jobs["weekly_folding"].pc \in {"done", "returned", "raised"}

\* the users whose fold was begun, in the order of the calls
FoldsBegun ==
  LET events == jobs["weekly_folding"].events
      begun == SelectSeq(events, LAMBDA ev : ev[1] = "begin")
  IN  [i \in 1..Len(begun) |-> begun[i][2]]

\* every fold ended before the next one was begun
OneAfterAnother ==
  LET events == jobs["weekly_folding"].events
  IN  \A i \in 1..Len(events) :
         IF i % 2 = 1 THEN events[i][1] = "begin"
         ELSE events[i][1] \in {"returned", "exception"} /\ events[i][2] = events[i - 1][2]

\* C28: with folding enabled and no shutdown flag set, a run of
\* _execute_weekly_folding that has ended has invoked the weekly fold exactly
\* once for each user of the activity cache at its start, one after another,
\* also when a fold raised an exception
C28_FoldOncePerCachedUser ==
  (FoldingEnded /\ jobs["weekly_folding"].enabled /\ ~ShutdownSet) =>
     /\ FoldsBegun = jobs["weekly_folding"].cache_at_start
     /\ Len(jobs["weekly_folding"].events) = 2 * Len(FoldsBegun)
     /\ OneAfterAnother

\* a run over two users ended although the fold of the first one raised, and
\* the cache changed while the run was under way
C28_Witness ==
  /\ jobs["weekly_folding"].pc = "done"
  /\ jobs["weekly_folding"].enabled
  /\ ~ShutdownSet
  /\ Len(jobs["weekly_folding"].cache_at_start) = 2
  /\ jobs["weekly_folding"].events[2][1] = "exception"
  /\ jobs["weekly_folding"].events[4][1] = "returned"
  /\ last_chat_time # jobs["weekly_folding"].cache_at_start

\* a run with folding disabled folds nobody
DisabledFoldsNobody ==
  (jobs["weekly_folding"].pc # "idle" /\ ~jobs["weekly_folding"].enabled) =>
     jobs["weekly_folding"].events = <<>>

\* the predicate was called on a message and returned
ValidityReturned == call_args # NoCall /\ call_args.fn = "_is_valid_message_content"
                    /\ call_result # NotReturned

\* the number of CJK characters of a text
CjkCount(text) == Len(SelectSeq(text, LAMBDA c : c \in ChineseChars))

HasChar(text, ch) == \E i \in 1..Len(text) : text[i] = ch

\* the three grounds of rejection, the second and third taken on a text
RejectedOn(prefix_text, prefixes, text, enable_command_filter) ==
  \/ enable_command_filter /\ \E k \in 1..Len(prefixes) : startswith(prefix_text, prefixes[k])
  \/ HasChar(text, "_") /\ ~HasChar(text, " ")
  \/ CjkCount(text) < 2 /\ Len(text) < 10

\* the prefixes as configured
Configured(option) == IF option.kind = "str" THEN <<option.value>> ELSE option.value

\* C29 as stated: a message is rejected exactly when its trimmed text starts
\* with a configured prefix (filter enabled), or the message contains an
\* underscore and no space, or the message has fewer than 2 CJK characters
\* and a length below 10
C29_RejectsExactlyAsStated ==
  ValidityReturned =>
    (call_result.value = FALSE <=>
       RejectedOn(strip(call_args.text), Configured(call_args.option), call_args.text,
                  call_args.enable_command_filter))

\* C29: a message is rejected exactly when its trimmed text starts with a
\* configured prefix that is not empty (filter enabled), or its trimmed text
\* contains an underscore and no space, or its trimmed text has fewer than 2
\* CJK characters and a length below 10; every other message is valid
C29_RejectsExactlyOnTrimmed ==
  ValidityReturned =>
    (call_result.value = FALSE <=>
       RejectedOn(strip(call_args.text), PrefixList(call_args.option), strip(call_args.text),
                  call_args.enable_command_filter))

\* a message of 10 characters or more with a blank only at its ends is
\* rejected for the underscore of its trimmed text
C29_Witness ==
  /\ ValidityReturned
  /\ call_result.value = FALSE
  /\ Len(strip(call_args.text)) >= 10
  /\ HasChar(call_args.text, " ")
  /\ ~HasChar(strip(call_args.text), " ")
  /\ HasChar(call_args.text, "_")
  /\ ~(\E k \in 1..Len(PrefixList(call_args.option)) :
          startswith(strip(call_args.text), PrefixList(call_args.option)[k]))

\* with the stated tests taken on the trimmed text only the empty prefix is
\* left to tell the statement from the code
OnlyEmptyPrefixDiffers ==
  (ValidityReturned
   /\ \A k \in 1..Len(Configured(call_args.option)) : Configured(call_args.option)[k] # <<>>) =>
    (call_result.value = FALSE <=>
       RejectedOn(strip(call_args.text), Configured(call_args.option), strip(call_args.text),
                  call_args.enable_command_filter))

\* the keyword extractor was called on a run of CJK characters and returned
KeywordsReturned == call_args # NoCall /\ call_args.fn = "_generate_query_keywords"
                    /\ call_result # NotReturned

\* the effective n-gram bounds of a call
EffectiveMin == IF call_args.cfg.keyword_ngram_min < 2 THEN 2 ELSE call_args.cfg.keyword_ngram_min
EffectiveMax ==
  LET wanted == IF call_args.cfg.keyword_ngram_max < EffectiveMin THEN EffectiveMin
                ELSE call_args.cfg.keyword_ngram_max
  IN  IF wanted > 6 THEN 6 ELSE wanted

\* the sum over n from lo to hi of (N - n + 1)
RECURSIVE SumOfPositions(_, _, _)
SumOfPositions(N, lo, hi) ==
  IF lo > hi THEN 0 ELSE (N - lo + 1) + SumOfPositions(N, lo + 1, hi)

StatedSum ==
  LET N == Len(call_args.query)
  IN  SumOfPositions(N, EffectiveMin, IF EffectiveMax < N THEN EffectiveMax ELSE N)

\* the places <<n, i>> of the n-grams of the run, and the n-gram at a place
GramPlaces ==
  {p \in (1..6) \X (1..Len(call_args.query)) :
     /\ p[1] >= EffectiveMin
     /\ p[1] <= EffectiveMax
     /\ p[2] + p[1] - 1 <= Len(call_args.query)}
GramOf(p) == SubSeq(call_args.query, p[2], p[2] + p[1] - 1)

\* the places whose n-gram is a stopword
StopwordPlaces == {p \in GramPlaces : GramOf(p) \in common_stopwords}

\* the places whose n-gram stands at an earlier place as well
RepeatedPlaces ==
  {p \in GramPlaces \ StopwordPlaces :
     \E q \in GramPlaces : q[1] = p[1] /\ q[2] < p[2] /\ GramOf(q) = GramOf(p)}

\* the Chinese n-grams of the result
ChineseKeywords ==
  {k \in call_result.value : \E i \in 1..Len(k) : k[i] \in ChineseChars}

\* C30 as stated: for a run of N CJK characters the number of Chinese n-grams
\* emitted is the sum over n from min_n to min(max_n, N) of (N - n + 1), minus
\* the n-grams that are stopwords
C30_CountIsSumOfPositions ==
  KeywordsReturned =>
    Cardinality(ChineseKeywords) = StatedSum - Cardinality(StopwordPlaces)

\* C30: the n-grams emitted for a run of N CJK characters are the distinct
\* n-grams of the run that are not stopwords, n from min_n to min(max_n, N);
\* their number is the stated sum minus the stopword n-grams minus the places
\* that repeat an n-gram of an earlier place
C30_CountIsDistinctGrams ==
  KeywordsReturned =>
    /\ Cardinality(GramPlaces) = StatedSum
    /\ ChineseKeywords = {GramOf(p) : p \in GramPlaces \ StopwordPlaces}
    /\ Cardinality(ChineseKeywords)
         = StatedSum - Cardinality(StopwordPlaces) - Cardinality(RepeatedPlaces)

\* a run with a stopword character in which an n-gram stands twice: fewer
\* n-grams are emitted than the sum of the places
C30_Witness ==
  /\ KeywordsReturned
  /\ <<"wo">> \in common_stopwords
  /\ \E i \in 1..Len(call_args.query) : call_args.query[i] = "wo"
  /\ RepeatedPlaces # {}
  /\ call_args.cfg.keyword_ngram_min = 1
  /\ call_args.cfg.keyword_ngram_max = 7
  /\ Len(call_args.query) = 7
  /\ Cardinality(ChineseKeywords) < StatedSum

\* no n-gram of a run is a stopword: the stopwords are single characters and
\* the effective minimum is 2
NoGramIsStopword == KeywordsReturned => StopwordPlaces = {}

\* without a repeated n-gram the stated sum is the number emitted
SumWhenNoRepeat ==
  (KeywordsReturned /\ RepeatedPlaces = {}) => Cardinality(ChineseKeywords) = StatedSum

\* the stored summaries that reference a raw message
SummariesCovering(uuid) == {r \in mem_rows : uuid \in RefSet(r.ref_uuids)}

\* C31: after archival runs, deletes that keep the raw messages, and undos of
\* one owner, every raw message is referenced by at most one stored summary
C31_CoveredByOneSummary ==
  \A uuid \in DOMAIN raw_rows : Cardinality(SummariesCovering(uuid)) <= 1

\* no unarchived raw message is referenced by a stored summary
UnarchivedUncovered ==
  \A uuid \in DOMAIN raw_rows : ~raw_rows[uuid] => SummariesCovering(uuid) = {}

\* an archival run that starts with every message covered at most once and
\* no unarchived message covered leaves every message covered at most once
ArchivalKeepsCover ==
  [][(dLast'.op = "archive" /\ C31_CoveredByOneSummary /\ UnarchivedUncovered)
       => C31_CoveredByOneSummary']_vars

\* a delete leaves every message covered at most once
DeleteKeepsCover ==
  [][(dLast'.op = "delete" /\ C31_CoveredByOneSummary) => C31_CoveredByOneSummary']_vars

\* the case of the claim: a summary is deleted with its messages kept, the
\* messages are archived again, and the undo restores the summary
CoveredTwiceAfterUndo ==
  /\ dLast.op = "undo"
  /\ dLast.ok
  /\ dPrev.op = "archive"
  /\ \E uuid \in DOMAIN raw_rows : Cardinality(SummariesCovering(uuid)) = 2

\* the state is typed as the comment of the timed archival says
TimedTypeOK ==
  /\ \A u \in Users : timed.unsaved_msg_count[u] \in 0..MaxMessages
  /\ \A u \in Users : Recorded(u) <= MaxMessages
  /\ timed.pass.todo \subseteq Users

\* C32: when the timed archival of a user failed, the messages it had read
\* are archived in the end without a new message of the user, under a
\* scheduler that keeps running and an archival that succeeds when it is
\* attempted again and again
C32_FailedBatchArchived ==
  \A u \in Users :
     (timed.attempts[u] \in {"llm_failed", "raised"} /\ Batched(u) > 0) ~> (Batched(u) = 0)

\* after an archival that raised, the archival of the user is attempted
\* again: the counter was not reset
RaisedAttemptedAgain ==
  \A u \in Users : (timed.attempts[u] = "raised") ~> (timed.attempts[u] # "raised")

\* C33: the counter of unsaved messages of a user is never below the number
\* of the user's counted messages that no archival has read: a message
\* recorded while the archival of the user runs is still counted after it
C33_CounterCoversUnreadMessages ==
  \A u \in Users : timed.unsaved_msg_count[u] >= timed.raw[u].new

\* the archival of a user returns to the loop of the pass
ArchivalReturns == timed.pass.pc = "archiving" /\ timed'.pass.pc = "loop"

\* no other step than the return of an archival takes the counter below the
\* unread messages
CounterLostOnlyAtReturn ==
  [][(C33_CounterCoversUnreadMessages /\ ~ArchivalReturns)
       => C33_CounterCoversUnreadMessages']_vars

\* a message was counted during an archival that succeeded, and the counter
\* is 0 with the message unarchived and unread
CountedDuringArchivalLost ==
  \E u \in Users :
     /\ timed.attempts[u] = "ok"
     /\ timed.pass.pc = "idle"
     /\ timed.raw[u].new = 1
     /\ timed.raw[u].archived >= min_msg_count
     /\ timed.unsaved_msg_count[u] = 0

\* C37: when an archival raised in a pass of check_and_summarize, no
\* eligible user of the pass is left unvisited and the cleanup of the
\* inactive users has run
C37_RaisedPassGoesOn ==
  timed.last_pass.outcome = "raised" =>
    (timed.last_pass.eligible_left = {} /\ timed.last_pass.cleaned)

\* the pass ended with an exception and left an eligible user unvisited
EligibleUserLeft ==
  timed.last_pass.outcome = "raised" /\ timed.last_pass.eligible_left # {}

\* an archival that fails and returns does not end the pass
ReturnedFailureGoesOn ==
  [][(timed.pass.pc = "archiving" /\ timed'.attempts[timed.pass.user] = "llm_failed")
       => (timed'.pass.pc = "loop" /\ timed'.pass.todo = timed.pass.todo)]_vars

\* a pass that no exception left visits every user of its copy and cleans
CompletedPassCleans ==
  timed.last_pass.outcome = "completed" =>
    (timed.last_pass.unvisited = {} /\ timed.last_pass.cleaned)

\* total_valid_chats of the stored profile
StoredChats == profile.social_graph.interaction_stats.total_valid_chats

\* the completed calls of update_interaction_stats
CompletedStatCalls == Cardinality({c \in StatCallers : tasks.stats[c].pc = "done"})

\* no call is between its read and its write
NoCallInFlight ==
  /\ tasks.persona.pc # "read"
  /\ \A c \in StatCallers : tasks.stats[c].pc # "read"

\* C34: under any interleaving of update_interaction_stats calls and an
\* update_persona_daily run of one user the stored total_valid_chats never
\* decreases, and once all calls have finished it counts every completed
\* update_interaction_stats call
C34_NoStatUpdateLost ==
  /\ [][StoredChats' >= StoredChats]_vars
  /\ [](NoCallInFlight => StoredChats = CompletedStatCalls)

\* calls that do not overlap lose nothing
SequentialCallsCounted ==
  (NoCallInFlight /\ ~tasks.overlapped) => StoredChats = CompletedStatCalls

\* the write of update_persona_daily took the counter back
PersonaWriteLostStat ==
  /\ tasks.persona.pc = "done"
  /\ NoCallInFlight
  /\ CompletedStatCalls = 1
  /\ StoredChats = 0

\* two calls of update_interaction_stats are counted as one
StatCallsCountedOnce ==
  /\ tasks.persona.pc = "idle"
  /\ CompletedStatCalls = 2
  /\ StoredChats = 1

\* the step is a delete_memory_by_sequence call that reported failure
FailedDeleteStep == dOps' # dOps /\ dLast'.op = "delete" /\ ~dLast'.ok

\* C35: a delete_memory_by_sequence call that reports failure leaves the
\* delete-undo history of the owner unchanged
C35_FailedDeleteKeepsHistory ==
  [][FailedDeleteStep => _delete_history' = _delete_history]_vars

\* a delete that fails because the sequence number names no summary leaves
\* the history unchanged
UnfoundDeleteKeepsHistory ==
  [][FailedDeleteStep /\ ~dLast'.found => _delete_history' = _delete_history]_vars

\* a delete whose collection.delete raised has put its record at the head of
\* the history (the failures of SpecHistory)
RaisedDeleteRecorded ==
  [][FailedDeleteStep /\ dLast'.found =>
       /\ _delete_history'["U1"] # <<>>
       /\ Head(_delete_history'["U1"]).index_id = dLast'.index_id
       /\ Head(_delete_history'["U1"]).serial = dSerial + 1]_vars

\* an undo was aimed at a summary that is still stored, the record of a
\* failed delete, while an earlier completed deletion waits to be undone
UndoBlockedByFailedDelete ==
  /\ dLast.op = "undo" /\ dLast.found /\ ~dLast.ok
  /\ \E r \in mem_rows : r.index_id = dLast.index_id
  /\ dLast.newest_completed # 0
  /\ dLast.serial > dLast.newest_completed
  /\ _delete_history["U1"] # <<>>
  /\ Head(_delete_history["U1"]).serial = dLast.serial

\* an undo_last_delete call that came right after a successful delete
UndoAfterDelete(ops) == dLast.op = "undo" /\ dPrev.op \in ops /\ dPrev.ok

\* the undo was aimed at the summary of the delete before it and, when it
\* succeeded, the summary is stored as it was
UndoRestoredThat ==
  /\ dLast.found
  /\ dLast.index_id = dPrev.index_id
  /\ dLast.ok => dBefore.row \in mem_rows

\* C36: after a successful delete of a summary, by sequence number or by
\* id, the next undo_last_delete of the owner restores exactly that summary
C36_UndoRestoresDeleted ==
  UndoAfterDelete({"delete", "delete_by_id"}) => UndoRestoredThat

\* it holds of the deletes by sequence number
UndoRestoresDeletedBySequence == UndoAfterDelete({"delete"}) => UndoRestoredThat

\* after a successful delete by id with the raw messages, the one whose
\* confirmation names the undo command, the undo finds nothing to restore
UndoAfterDeleteByIdFindsNothing ==
  /\ UndoAfterDelete({"delete_by_id"})
  /\ dPrev.delete_raw
  /\ ~dLast.found
  /\ \A r \in mem_rows : r.index_id # dPrev.index_id

\* after a successful delete by id the undo restores the summary of an
\* earlier delete by sequence number
UndoAfterDeleteByIdRestoresOther ==
  /\ UndoAfterDelete({"delete_by_id"})
  /\ dLast.found /\ dLast.ok
  /\ dLast.index_id # dPrev.index_id
  /\ \A r \in mem_rows : r.index_id # dPrev.index_id

\* C38: with evidence protection enabled, an evidence-protected basic_info
\* field whose current value is set is present in the validated basic_info,
\* whatever the LLM proposes and whatever the supporting text is
C38_ProtectedFieldPresent ==
  (cycle > 0 /\ config.enable_strong_evidence) =>
    \A f \in evidence_protected :
       IsSet(lastOld.basic_info[f]) => profile.basic_info[f] # None

\* the field is missing from the validated basic_info only when the proposal
\* left it out and the supporting text matches a pattern of the field
DroppedOnlyOnEvidence ==
  (cycle > 0 /\ config.enable_strong_evidence) =>
    \A f \in evidence_protected :
       (IsSet(lastOld.basic_info[f]) /\ profile.basic_info[f] = None) =>
          /\ lastNew.basic_info[f] = None
          /\ _check_strong_evidence(f, lastText)

\* a set gender was left out by the LLM under a text that matches a gender
\* pattern, and the validated basic_info has no gender
GenderDroppedOnEvidence ==
  /\ cycle > 0
  /\ config.enable_strong_evidence
  /\ IsSet(lastOld.basic_info["gender"])
  /\ lastNew.basic_info["gender"] = None
  /\ _check_strong_evidence("gender", lastText)
  /\ profile.basic_info["gender"] = None

\* C39: re-proposing a preference item that its category already holds
\* produces no conflict record: no emitted conflict has old_value equal to
\* new_value
C39_NoSelfConflict == \A c \in conflicts : c.old_value # c.new_value

\* an item is in conflict with itself only if it holds a word of the
\* positive and a word of the negative set of one pair, and it stays in its
\* category
SelfConflictOnlyAmbivalent ==
  \A c \in conflicts :
     c.old_value = c.new_value =>
       /\ \E k \in 1..Len(CONFLICT_PAIRS) :
             /\ \E p \in CONFLICT_PAIRS[k][1] : Contains(lower(c.new_value), p)
             /\ \E n \in CONFLICT_PAIRS[k][2] : Contains(lower(c.new_value), n)
       /\ c.new_value \in profile.preferences[c.category]
       /\ c.new_value \in lastOld.preferences[c.category]

\* the LLM proposed again an item of likes that says "do not like cats", and a
\* sentiment conflict of the item with itself was emitted
SelfConflictRecorded ==
  /\ cycle > 0
  /\ config.enable_conflict_detection
  /\ <<"bu", "xi", "huan", "mao">> \in lastOld.preferences["likes"]
  /\ <<"bu", "xi", "huan", "mao">> \in lastNew.preferences["likes"]
  /\ \E c \in conflicts :
        /\ c.category = "likes"
        /\ c.old_value = <<"bu", "xi", "huan", "mao">>
        /\ c.new_value = c.old_value
        /\ c.conflict_type = "sentiment_conflict"

\* the folds a run of job j has begun
FoldsOf(j) == IF jobs[j].pc = "idle" THEN <<>> ELSE jobs[j].events

\* a run of job j was made with enable_memory_folding false
DisabledRun(j) == jobs[j].pc # "idle" /\ ~jobs[j].enabled

\* C40: with enable_memory_folding false neither the weekly nor the monthly
\* folding job invokes a fold for any user
C40_DisabledJobsFoldNobody ==
  \A j \in {"weekly_folding", "monthly_folding"} : DisabledRun(j) => FoldsOf(j) = <<>>

\* the monthly job folds every user of the cache whatever the option is: a
\* run that reached its end with no flag set has begun one fold per user
MonthlyIgnoresOption ==
  (jobs["monthly_folding"].pc = "done" /\ ~ShutdownSet) =>
     Len(FoldsOf("monthly_folding")) = 2 * Len(jobs["monthly_folding"].cache_at_start)

\* a monthly run with the option false has folded two users
DisabledMonthlyFolded ==
  /\ DisabledRun("monthly_folding")
  /\ jobs["monthly_folding"].pc = "done"
  /\ Len(jobs["monthly_folding"].cache_at_start) = 2
  /\ Len(FoldsOf("monthly_folding")) = 4
  /\ DisabledRun("weekly_folding")
  /\ jobs["weekly_folding"].cache_at_start # <<>>

====
